---- MODULE Spec2Model ----
(***************************************************************************)
(* Battleship rules engine (calimero-network/battleships, logic crate).    *)
(* The shared BattleshipState (id_nonce, active_match), the per-identity   *)
(* private store of PlayerBoards, and the public operations create_match,  *)
(* place_ships, propose_shot, acknowledge_shot, acknowledge_shot_handler.  *)
(* Every operation is a function from the state before the call to a      *)
(* result (error or value) and the state after it; an action of the state  *)
(* machine is a call that returns Ok.  A call that returns Err commits     *)
(* nothing, so it is no step; what it returns is read off the function.    *)
(* twin is a second copy of the system, run side by side with the first    *)
(* under SpecTwin and left at its initial state otherwise.  pboard is one  *)
(* PlayerBoard driven directly through PlayerBoard::place_ships            *)
(* (SpecBoard), where a call that returns Err is a step too, since it may  *)
(* have written to the board; ship is one coordinate list handed to        *)
(* Ship::new (SpecShip).                                                   *)
(***************************************************************************)
EXTENDS Integers, Sequences, FiniteSets, TLC

VARIABLES id_nonce, active_match, boards, last, twin, pboard, ship

vars == <<id_nonce, active_match, boards, last, twin, pboard, ship>>

(***************************************************************************)
(* Option<T>: None is the empty sequence, Some(v) the one-element one.     *)
(***************************************************************************)
None == <<>>

Some(v) == <<v>>

is_some(o) == Len(o) = 1

unwrap(o) == o[1]

unwrap_or(o, d) == IF Len(o) = 1 THEN o[1] ELSE d

(***************************************************************************)
(* Result<_, GameError>: kind is Ok or one of the four GameError variants. *)
(***************************************************************************)
Ok == [kind |-> "Ok", msg |-> ""]

Invalid(m) == [kind |-> "Invalid", msg |-> m]

Forbidden(m) == [kind |-> "Forbidden", msg |-> m]

NotFound(m) == [kind |-> "NotFound", msg |-> m]

Finished == [kind |-> "Finished", msg |-> ""]

\* a failed expect(): the call traps and commits nothing
Panic == [kind |-> "Panic", msg |-> ""]

(***************************************************************************)
(* board.rs                                                                *)
(***************************************************************************)
BOARD_SIZE == 10

U8_MAX == 255

Coord(x, y) == [x |-> x, y |-> y]

\* Coordinate::is_valid
Coordinate_is_valid(c) == c.x < BOARD_SIZE /\ c.y < BOARD_SIZE

\* Coordinate::new: Err(Invalid) when a component is >= BOARD_SIZE
Coordinate_new(x, y) ==
    IF x >= BOARD_SIZE \/ y >= BOARD_SIZE
    THEN [err |-> Invalid("coordinate out of bounds"), val |-> None]
    ELSE [err |-> Ok, val |-> Some(Coord(x, y))]

\* Cell::to_u8
Cell_to_u8(cell) ==
    CASE cell = "Empty" -> 0
      [] cell = "Ship" -> 1
      [] cell = "Hit" -> 2
      [] cell = "Miss" -> 3
      [] cell = "Pending" -> 4

\* Cell::from_u8
Cell_from_u8(value) ==
    CASE value = 1 -> "Ship"
      [] value = 2 -> "Hit"
      [] value = 3 -> "Miss"
      [] value = 4 -> "Pending"
      [] OTHER -> "Empty"

\* Board::new_zeroed: a Vec<u8> of size*size zeroes (TLA+ sequences start at 1)
Board_new_zeroed(size) == [i \in 1..(size * size) |-> 0]

\* Board::idx: row-major index (0-based, as in the source)
Board_idx(size, x, y) == y * size + x

\* Board::in_bounds
Board_in_bounds(size, x, y) == x < size /\ y < size

\* Board::get
Board_get(b, size, x, y) == Cell_from_u8(b[Board_idx(size, x, y) + 1])

\* Board::set
Board_set(b, size, x, y, cell) ==
    [b EXCEPT ![Board_idx(size, x, y) + 1] = Cell_to_u8(cell)]

\* Board::is_adjacent_violation: some in-board neighbour of (x,y) holds Ship
\* mutant: no neighbour is looked at
Mut_never_adjacent(b, size, x, y) == FALSE

Board_is_adjacent_violation(b, size, x, y) ==
    \E dy \in -1..1 : \E dx \in -1..1 :
        /\ ~(dx = 0 /\ dy = 0)
        /\ x + dx >= 0 /\ y + dy >= 0
        /\ x + dx < size /\ y + dy < size
        /\ Board_get(b, size, x + dx, y + dy) = "Ship"

(***************************************************************************)
(* ships.rs                                                                *)
(***************************************************************************)
\* sort_by_key (stable insertion sort) on the key k of a record
RECURSIVE InsertByKey(_, _, _)
InsertByKey(sorted, c, k) ==
    IF sorted = <<>> THEN <<c>>
    ELSE IF c[k] < Head(sorted)[k] THEN <<c>> \o sorted
    ELSE <<Head(sorted)>> \o InsertByKey(Tail(sorted), c, k)

RECURSIVE sort_by_key(_, _)
sort_by_key(coords, k) ==
    IF coords = <<>> THEN <<>>
    ELSE LET n == Len(coords)
         IN InsertByKey(sort_by_key(SubSeq(coords, 1, n - 1), k), coords[n], k)

\* Ship::is_straight: all same x XOR all same y
Ship_is_straight(coords) ==
    IF Len(coords) <= 1 THEN TRUE
    ELSE LET same_x == \A i \in 1..Len(coords) : coords[i].x = coords[1].x
             same_y == \A i \in 1..Len(coords) : coords[i].y = coords[1].y
         IN same_x # same_y

\* Ship::is_contiguous: sorted along the axis, every window of two is one unit step
Ship_is_contiguous(coords) ==
    IF Len(coords) <= 1 THEN TRUE
    ELSE LET same_x == \A i \in 1..Len(coords) : coords[i].x = coords[1].x
             sorted == IF same_x THEN sort_by_key(coords, "y")
                       ELSE sort_by_key(coords, "x")
             step == IF same_x THEN <<0, 1>> ELSE <<1, 0>>
         IN \A i \in 1..(Len(sorted) - 1) :
                <<sorted[i + 1].x - sorted[i].x, sorted[i + 1].y - sorted[i].y>> = step

Abs(n) == IF n < 0 THEN -n ELSE n

\* Ship::overlaps_with
Ship_overlaps_with(a, b) ==
    \E i \in 1..Len(a) : \E j \in 1..Len(b) : a[i] = b[j]

\* Ship::is_adjacent_to: Chebyshev distance 1
Ship_is_adjacent_to(a, b) ==
    \E i \in 1..Len(a) : \E j \in 1..Len(b) :
        LET dx == Abs(a[i].x - b[j].x)
            dy == Abs(a[i].y - b[j].y)
        IN dx <= 1 /\ dy <= 1 /\ ~(dx = 0 /\ dy = 0)

\* Ship::new: the length and the coordinates are checked, nothing else
Ship_new(coords) ==
    IF coords = <<>> THEN Invalid("ship cannot be empty")
    ELSE IF Len(coords) < 2 \/ Len(coords) > 5 THEN Invalid("ship length must be 2-5")
    ELSE IF \E i \in 1..Len(coords) : ~Coordinate_is_valid(coords[i])
         THEN Invalid("ship contains invalid coordinates")
    ELSE Ok

(***************************************************************************)
(* A submitted group "x,y;x,y;..." is the sequence of its ';'-separated    *)
(* pieces; a piece is the pair of its first two ','-separated fields (a    *)
(* missing field is the empty text, further fields are never read).  A     *)
(* field is the number it spells, or NotANumber.                           *)
(***************************************************************************)
NotANumber == -1

Piece(sx, sy) == [sx |-> sx, sy |-> sy]

\* str::parse::<u8>
parse_u8(t) == IF t >= 0 /\ t <= U8_MAX THEN Some(t) ELSE None

\* the filter_map closure of parse_ship_coords: one piece to Option<Coordinate>
\* mutant: a field that is no u8 counts as 0
Mut_parse_piece_zero_default(p) ==
    Coordinate_new(unwrap_or(parse_u8(p.sx), 0), unwrap_or(parse_u8(p.sy), 0)).val

parse_piece(p) ==
    LET x == parse_u8(p.sx)
        y == parse_u8(p.sy)
    IN IF ~is_some(x) THEN None
       ELSE IF ~is_some(y) THEN None
       ELSE Coordinate_new(unwrap(x), unwrap(y)).val

\* ShipValidator::parse_ship_coords: pieces that do not parse are dropped
RECURSIVE parse_ship_coords(_)
parse_ship_coords(group) ==
    IF group = <<>> THEN <<>>
    ELSE parse_piece(Head(group)) \o parse_ship_coords(Tail(group))

(***************************************************************************)
(* validation.rs is not among the sources: the two entry points are        *)
(* modelled from the specification's validation pipeline (fixed order,     *)
(* first failure wins).                                                    *)
(***************************************************************************)
FleetComposition == <<1, 2, 1, 1>>

validate_ship_placement(board, coords, size) ==
    IF \E i \in 1..Len(coords) : ~Board_in_bounds(size, coords[i].x, coords[i].y)
    THEN Invalid("bounds")
    ELSE IF ~Ship_is_straight(coords) THEN Invalid("straight line")
    ELSE IF ~Ship_is_contiguous(coords) THEN Invalid("contiguity")
    ELSE IF \E i \in 1..Len(coords) :
                Board_get(board, size, coords[i].x, coords[i].y) = "Ship"
         THEN Invalid("overlap")
    ELSE IF \E i \in 1..Len(coords) :
                Board_is_adjacent_violation(board, size, coords[i].x, coords[i].y)
         THEN Invalid("adjacency")
    ELSE IF Len(coords) < 2 \/ Len(coords) > 5 THEN Invalid("ship length")
    ELSE Ok

validate_fleet_composition(ship_counts, ship_coordinates) ==
    IF \E i, j \in 1..Len(ship_coordinates) :
           i < j /\ Ship_overlaps_with(ship_coordinates[i], ship_coordinates[j])
    THEN Invalid("uniqueness")
    ELSE IF ship_counts # FleetComposition THEN Invalid("fleet composition")
    ELSE Ok

\* ShipValidator::validate_ship_placement
ShipValidator_validate_ship_placement(board, size, coords) ==
    IF coords = <<>> THEN Invalid("empty ship")
    ELSE validate_ship_placement(board, coords, size)

(***************************************************************************)
(* players.rs                                                              *)
(***************************************************************************)
\* PlayerBoard::new
PlayerBoard_new ==
    [own |-> Board_new_zeroed(BOARD_SIZE), ships |-> 0, placed |-> FALSE]

\* the "Place the ship" loop: every cell becomes Ship, the counter grows by one each
\* mutant: the counter grows by one for the ship, not by one for each cell
Mut_place_cells_counts_ship(pb, coords) ==
    [pb EXCEPT
         !.own = [i \in 1..Len(pb.own) |->
                      IF \E k \in 1..Len(coords) :
                             Board_idx(BOARD_SIZE, coords[k].x, coords[k].y) + 1 = i
                      THEN Cell_to_u8("Ship") ELSE pb.own[i]],
         !.ships = pb.ships + 1]

RECURSIVE place_cells(_, _)
place_cells(pb, coords) ==
    IF coords = <<>> THEN pb
    ELSE place_cells(
             [pb EXCEPT !.own = Board_set(pb.own, BOARD_SIZE, Head(coords).x,
                                          Head(coords).y, "Ship"),
                        !.ships = pb.ships + 1],
             Tail(coords))

\* the body of place_ships from the for loop on: acc is (ship_counts, total_ships,
\* all_ship_coordinates); the board keeps what earlier groups wrote when a later
\* group or the final composition check returns the error
RECURSIVE place_groups(_, _, _)
place_groups(pb, groups, acc) ==
    IF groups = <<>>
    THEN IF acc.total_ships = 0 THEN [err |-> Invalid("no ships"), pb |-> pb]
         ELSE LET v == validate_fleet_composition(acc.ship_counts,
                                                  acc.all_ship_coordinates)
              IN IF v # Ok THEN [err |-> v, pb |-> pb]
                 ELSE [err |-> Ok, pb |-> [pb EXCEPT !.placed = TRUE]]
    ELSE LET coords == parse_ship_coords(Head(groups))
             ship_len == Len(coords)
         IN IF coords = <<>> THEN place_groups(pb, Tail(groups), acc)
            ELSE IF ship_len < 2 \/ ship_len > 5
                 THEN [err |-> Invalid("ship length must be 2-5"), pb |-> pb]
            ELSE LET v == ShipValidator_validate_ship_placement(pb.own, BOARD_SIZE, coords)
                 IN IF v # Ok THEN [err |-> v, pb |-> pb]
                    ELSE place_groups(
                             place_cells(pb, coords),
                             Tail(groups),
                             [ship_counts |->
                                  [acc.ship_counts EXCEPT ![ship_len - 1] = @ + 1],
                              total_ships |-> acc.total_ships + 1,
                              all_ship_coordinates |->
                                  Append(acc.all_ship_coordinates, coords)])

\* PlayerBoard::place_ships: [err, pb], pb being the board as the call leaves it
\* mutant: the length histogram starts with one ship of length 3 counted
Mut_place_ships_stale_counts(pb, ships) ==
    IF pb.placed THEN [err |-> Invalid("already placed"), pb |-> pb]
    ELSE place_groups(pb, ships,
                      [ship_counts |-> <<0, 1, 0, 0>>, total_ships |-> 0,
                       all_ship_coordinates |-> <<>>])

\* mutant: the placed flag is not looked at
Mut_place_ships_ignores_placed(pb, ships) ==
    place_groups(pb, ships,
                 [ship_counts |-> <<0, 0, 0, 0>>, total_ships |-> 0,
                  all_ship_coordinates |-> <<>>])

PlayerBoard_place_ships(pb, ships) ==
    IF pb.placed THEN [err |-> Invalid("already placed"), pb |-> pb]
    ELSE place_groups(pb, ships,
                      [ship_counts |-> <<0, 0, 0, 0>>, total_ships |-> 0,
                       all_ship_coordinates |-> <<>>])

\* PlayerBoard::decrement_ships
\* mutant: the counter is left as it was
Mut_decrement_ships_keeps(pb) == pb

PlayerBoard_decrement_ships(pb) ==
    IF pb.ships > 0 THEN [pb EXCEPT !.ships = pb.ships - 1] ELSE pb

(***************************************************************************)
(* game.rs: Match                                                          *)
(***************************************************************************)
\* Match::new
\* mutant: the invited player moves first
Mut_new_second_player_first(id, player1, player2) ==
    [id |-> id, player1 |-> player1, player2 |-> player2, turn |-> player2,
     winner |-> None, placed_p1 |-> FALSE, placed_p2 |-> FALSE,
     pending_x |-> None, pending_y |-> None,
     pending_shooter |-> None, pending_target |-> None,
     shots_p1 |-> Board_new_zeroed(BOARD_SIZE),
     shots_p2 |-> Board_new_zeroed(BOARD_SIZE)]

Match_new(id, player1, player2) ==
    [id |-> id, player1 |-> player1, player2 |-> player2, turn |-> player1,
     winner |-> None, placed_p1 |-> FALSE, placed_p2 |-> FALSE,
     pending_x |-> None, pending_y |-> None,
     pending_shooter |-> None, pending_target |-> None,
     shots_p1 |-> Board_new_zeroed(BOARD_SIZE),
     shots_p2 |-> Board_new_zeroed(BOARD_SIZE)]

is_player(m, player) == player = m.player1 \/ player = m.player2

get_opponent(m, player) == IF player = m.player1 THEN m.player2 ELSE m.player1

is_turn(m, player) == m.turn = player

\* mutant: the turn is left where it is
Mut_switch_turn_keeps(m) == m

switch_turn(m) == [m EXCEPT !.turn = get_opponent(m, m.turn)]

is_finished(m) == is_some(m.winner)

\* mutant: one placement is taken for both
Mut_either_player_placed(m) == m.placed_p1 \/ m.placed_p2

both_players_placed(m) == m.placed_p1 /\ m.placed_p2

\* mutant: a pending shot goes unnoticed
Mut_never_pending(m) == FALSE

has_pending_shot(m) == is_some(m.pending_x)

\* mutant: the other player is recorded as the winner
Mut_set_winner_opponent(m, winner) == [m EXCEPT !.winner = Some(get_opponent(m, winner))]

set_winner(m, winner) == [m EXCEPT !.winner = Some(winner)]

get_shots_for_player(m, player) ==
    IF player = m.player1 THEN m.shots_p1 ELSE m.shots_p2

\* mutant: every shot is written to player1's shot-history
Mut_set_shot_first_board(m, shooter, x, y, cell) ==
    [m EXCEPT !.shots_p1 = Board_set(m.shots_p1, BOARD_SIZE, x, y, cell)]

\* the shooter's shot-history cell (x,y) written in place
set_shot(m, shooter, x, y, cell) ==
    IF shooter = m.player1
    THEN [m EXCEPT !.shots_p1 = Board_set(m.shots_p1, BOARD_SIZE, x, y, cell)]
    ELSE [m EXCEPT !.shots_p2 = Board_set(m.shots_p2, BOARD_SIZE, x, y, cell)]

\* mutants of propose_shot: one check left out (skip), or the turn switched at once
Mut_propose_shot(m, shooter, x, y, skip) ==
    IF skip # "finished" /\ is_some(m.winner) THEN [err |-> Finished, m |-> m]
    ELSE IF ~(m.placed_p1 /\ m.placed_p2)
         THEN [err |-> Invalid("both players must place ships first"), m |-> m]
    ELSE IF x >= BOARD_SIZE \/ y >= BOARD_SIZE
         THEN [err |-> Invalid("out of bounds"), m |-> m]
    ELSE IF is_some(m.pending_x) THEN [err |-> Invalid("shot already pending"), m |-> m]
    ELSE IF ~(shooter = m.player1 \/ shooter = m.player2)
         THEN [err |-> Forbidden("not a player"), m |-> m]
    ELSE IF skip # "turn" /\ m.turn # shooter
         THEN [err |-> Forbidden("not your turn"), m |-> m]
    ELSE LET opponent == IF shooter = m.player1 THEN m.player2 ELSE m.player1
             hist == IF shooter = m.player1 THEN "shots_p1" ELSE "shots_p2"
         IN [err |-> Ok,
             m |-> [m EXCEPT
                        ![hist] = Board_set(@, BOARD_SIZE, x, y, "Pending"),
                        !.pending_x = Some(x),
                        !.pending_y = Some(y),
                        !.pending_shooter = Some(shooter),
                        !.pending_target = Some(opponent),
                        !.turn = IF skip = "switch" THEN opponent ELSE @]]

Mut_propose_shot_when_finished(m, shooter, x, y) ==
    Mut_propose_shot(m, shooter, x, y, "finished")

Mut_propose_shot_any_turn(m, shooter, x, y) ==
    Mut_propose_shot(m, shooter, x, y, "turn")

Mut_propose_shot_switches_turn(m, shooter, x, y) ==
    Mut_propose_shot(m, shooter, x, y, "switch")

\* Match::propose_shot: [err, m]; every check returns before anything is written
Match_propose_shot(m, shooter, x, y) ==
    IF is_finished(m) THEN [err |-> Finished, m |-> m]
    ELSE IF ~both_players_placed(m)
         THEN [err |-> Invalid("both players must place ships first"), m |-> m]
    ELSE IF x >= BOARD_SIZE \/ y >= BOARD_SIZE
         THEN [err |-> Invalid("out of bounds"), m |-> m]
    ELSE IF has_pending_shot(m) THEN [err |-> Invalid("shot already pending"), m |-> m]
    ELSE IF ~is_player(m, shooter) THEN [err |-> Forbidden("not a player"), m |-> m]
    ELSE IF ~is_turn(m, shooter) THEN [err |-> Forbidden("not your turn"), m |-> m]
    ELSE [err |-> Ok,
          m |-> [set_shot(m, shooter, x, y, "Pending") EXCEPT
                     !.pending_x = Some(x),
                     !.pending_y = Some(y),
                     !.pending_shooter = Some(shooter),
                     !.pending_target = Some(get_opponent(m, shooter))]]

\* mutants of acknowledge_shot: a caller who is not the target is turned away as
\* Invalid (kind), or the acknowledged target is consumed at once (take)
Mut_acknowledge_shot(m, target, slip) ==
    IF ~is_some(m.pending_target)
    THEN [err |-> Invalid("no pending shot"), m |-> m, ret |-> ""]
    ELSE IF unwrap(m.pending_target) # target
         THEN [err |-> IF slip = "kind" THEN Invalid("not the target")
                       ELSE Forbidden("not the target"),
               m |-> m, ret |-> ""]
    ELSE [err |-> Ok,
          m |-> IF slip = "take" THEN [m EXCEPT !.pending_target = None] ELSE m,
          ret |-> "acknowledged"]

Mut_acknowledge_shot_invalid_kind(m, target) == Mut_acknowledge_shot(m, target, "kind")

Mut_acknowledge_shot_takes_target(m, target) == Mut_acknowledge_shot(m, target, "take")

\* Match::acknowledge_shot: [err, m, ret]; no field is written
Match_acknowledge_shot(m, target) ==
    IF ~is_some(m.pending_target)
    THEN [err |-> Invalid("no pending shot"), m |-> m, ret |-> ""]
    ELSE IF unwrap(m.pending_target) # target
         THEN [err |-> Forbidden("not the target"), m |-> m, ret |-> ""]
    ELSE [err |-> Ok, m |-> m, ret |-> "acknowledged"]

\* mutants of resolve_shot: the turn switched whatever the winner (switch), or
\* pending_target left as it was (target)
Mut_resolve_shot(m, is_hit, slip) ==
    IF ~is_some(m.pending_x) \/ ~is_some(m.pending_y) \/ ~is_some(m.pending_shooter)
    THEN [panic |-> TRUE, m |-> m, ret |-> ""]
    ELSE LET x == unwrap(m.pending_x)
             y == unwrap(m.pending_y)
             shooter == unwrap(m.pending_shooter)
             hist == IF shooter = m.player1 THEN "shots_p1" ELSE "shots_p2"
             other == IF m.turn = m.player1 THEN m.player2 ELSE m.player1
         IN [panic |-> FALSE,
             m |-> [m EXCEPT
                        !.pending_x = None, !.pending_y = None,
                        !.pending_shooter = None,
                        !.pending_target = IF slip = "target" THEN @ ELSE None,
                        ![hist] = Board_set(@, BOARD_SIZE, x, y,
                                            IF is_hit THEN "Hit" ELSE "Miss"),
                        !.turn = IF slip = "switch" \/ ~is_some(m.winner)
                                 THEN other ELSE @],
             ret |-> IF is_hit THEN "hit" ELSE "miss"]

Mut_resolve_shot_always_switches(m, is_hit) == Mut_resolve_shot(m, is_hit, "switch")

Mut_resolve_shot_keeps_target(m, is_hit) == Mut_resolve_shot(m, is_hit, "target")

\* Match::resolve_shot: [panic, m, ret]; the three expect()s panic on a missing field
Match_resolve_shot(m, is_hit) ==
    IF ~is_some(m.pending_x) \/ ~is_some(m.pending_y) \/ ~is_some(m.pending_shooter)
    THEN [panic |-> TRUE, m |-> m, ret |-> ""]
    ELSE LET x == unwrap(m.pending_x)
             y == unwrap(m.pending_y)
             shooter == unwrap(m.pending_shooter)
             taken == [m EXCEPT !.pending_x = None, !.pending_y = None,
                                !.pending_shooter = None, !.pending_target = None]
             written == set_shot(taken, shooter, x, y, IF is_hit THEN "Hit" ELSE "Miss")
         IN [panic |-> FALSE,
             m |-> IF ~is_some(written.winner) THEN switch_turn(written) ELSE written,
             ret |-> IF is_hit THEN "hit" ELSE "miss"]

(***************************************************************************)
(* game.rs: ShotResolver                                                   *)
(***************************************************************************)
\* mutant of ShotResolver::resolve_shot: every cell that is not Empty counts as a hit
Mut_resolve_shot_hit_unless_empty(m, target_board) ==
    IF ~is_some(m.pending_x) \/ ~is_some(m.pending_y) \/ ~is_some(m.pending_shooter)
    THEN [err |-> Invalid("no pending shot"), panic |-> FALSE, m |-> m,
          pb |-> target_board, ret |-> ""]
    ELSE LET x == unwrap(m.pending_x)
             y == unwrap(m.pending_y)
             shooter == unwrap(m.pending_shooter)
             cur == Board_get(target_board.own, BOARD_SIZE, x, y)
             is_hit == cur # "Empty"
             pb1 == IF is_hit
                    THEN PlayerBoard_decrement_ships(
                             [target_board EXCEPT
                                  !.own = Board_set(@, BOARD_SIZE, x, y, "Hit")])
                    ELSE [target_board EXCEPT
                              !.own = Board_set(@, BOARD_SIZE, x, y, "Miss")]
             m1 == IF is_hit /\ pb1.ships = 0 THEN set_winner(m, shooter) ELSE m
             r == Match_resolve_shot(m1, is_hit)
         IN [err |-> Ok, panic |-> r.panic, m |-> r.m, pb |-> pb1, ret |-> r.ret]

\* mutant of ShotResolver::resolve_shot: the pending fields are read with defaults
\* instead of being required
Mut_resolve_shot_unguarded(m, target_board) ==
    LET x == unwrap_or(m.pending_x, 0)
        y == unwrap_or(m.pending_y, 0)
        shooter == unwrap_or(m.pending_shooter, m.player1)
        cur == Board_get(target_board.own, BOARD_SIZE, x, y)
        is_hit == cur = "Ship"
        pb1 == IF is_hit
               THEN PlayerBoard_decrement_ships(
                        [target_board EXCEPT
                             !.own = Board_set(@, BOARD_SIZE, x, y, "Hit")])
               ELSE [target_board EXCEPT
                         !.own = Board_set(@, BOARD_SIZE, x, y, "Miss")]
        m1 == IF is_hit /\ pb1.ships = 0 THEN set_winner(m, shooter) ELSE m
        r == Match_resolve_shot(m1, is_hit)
    IN [err |-> Ok, panic |-> r.panic, m |-> r.m, pb |-> pb1, ret |-> r.ret]

\* ShotResolver::resolve_shot: [err, panic, m, pb, ret]
ShotResolver_resolve_shot(m, target_board) ==
    IF ~is_some(m.pending_x) \/ ~is_some(m.pending_y) \/ ~is_some(m.pending_shooter)
    THEN [err |-> Invalid("no pending shot"), panic |-> FALSE, m |-> m,
          pb |-> target_board, ret |-> ""]
    ELSE LET x == unwrap(m.pending_x)
             y == unwrap(m.pending_y)
             shooter == unwrap(m.pending_shooter)
             cur == Board_get(target_board.own, BOARD_SIZE, x, y)
             is_hit == cur = "Ship"
             pb1 == IF is_hit
                    THEN PlayerBoard_decrement_ships(
                             [target_board EXCEPT
                                  !.own = Board_set(@, BOARD_SIZE, x, y, "Hit")])
                    ELSE [target_board EXCEPT
                              !.own = Board_set(@, BOARD_SIZE, x, y, "Miss")]
             m1 == IF is_hit /\ pb1.ships = 0 THEN set_winner(m, shooter) ELSE m
             r == Match_resolve_shot(m1, is_hit)
         IN [err |-> Ok, panic |-> r.panic, m |-> r.m, pb |-> pb1, ret |-> r.ret]

(***************************************************************************)
(* players.rs: identities and the private store.  An identity is a 32-byte *)
(* key; three of them exist here, and a text is the base58 form of a key   *)
(* iff it names one of them.  boards[p] is the PrivateBoards map of the    *)
(* node of identity p: match id -> PlayerBoard.                            *)
(***************************************************************************)
Identities == {"A", "B", "C"}

\* PublicKey::from_base58
PublicKey_from_base58(encoded) ==
    IF encoded \in Identities THEN [err |-> Ok, val |-> Some(encoded)]
    ELSE [err |-> Invalid("bad base58 key"), val |-> None]

\* UnorderedMap::get
map_get(map, key) == IF key \in DOMAIN map THEN Some(map[key]) ELSE None

\* UnorderedMap::insert
map_insert(map, key, value) ==
    [k \in (DOMAIN map) \cup {key} |-> IF k = key THEN value ELSE map[k]]

EmptyMap == [k \in {} |-> PlayerBoard_new]

(***************************************************************************)
(* lib.rs: BattleshipState.  An operation takes the state st before the    *)
(* call and the caller (the executor id) and gives                         *)
(* [err, ret, st, events]: st is the state the call commits (the state     *)
(* before it when err is not Ok), events what it emitted.                  *)
(***************************************************************************)
St == [id_nonce |-> id_nonce, active_match |-> active_match, boards |-> boards]

Fail(st, e) == [err |-> e, ret |-> "", st |-> st, events |-> <<>>]

Event(name, id, x, y, result) ==
    [name |-> name, id |-> id, x |-> x, y |-> y, result |-> result]

\* BattleshipState::init
BattleshipState_init ==
    [id_nonce |-> 0, active_match |-> None, boards |-> [p \in Identities |-> EmptyMap]]

\* BattleshipState::next_id: the id is the text "match-<time>-<nonce>"; the nonce
\* alone tells two ids apart, and stands for the id.  wrapping_add wraps at 2^64,
\* which MaxMatches keeps out of reach
next_id(st) == st.id_nonce + 1

\* BattleshipState::create_match
\* mutant: the two players are not compared
Mut_create_match_same_players(st, caller, player2) ==
    IF is_some(st.active_match) /\ ~is_finished(unwrap(st.active_match))
    THEN Fail(st, Invalid("another match is active"))
    ELSE LET player2_pk == PublicKey_from_base58(player2)
         IN IF player2_pk.err # Ok THEN Fail(st, player2_pk.err)
            ELSE LET id == next_id(st)
                 IN [err |-> Ok, ret |-> "id",
                     st |-> [st EXCEPT
                                 !.id_nonce = id,
                                 !.active_match =
                                     Some(Match_new(id, caller, unwrap(player2_pk.val)))],
                     events |-> <<Event("MatchCreated", id, 0, 0, "")>>]

Api_create_match(st, caller, player2) ==
    IF is_some(st.active_match) /\ ~is_finished(unwrap(st.active_match))
    THEN Fail(st, Invalid("another match is active"))
    ELSE LET player2_pk == PublicKey_from_base58(player2)
         IN IF player2_pk.err # Ok THEN Fail(st, player2_pk.err)
            ELSE IF caller = unwrap(player2_pk.val)
                 THEN Fail(st, Invalid("players must differ"))
            ELSE LET id == next_id(st)
                 IN [err |-> Ok, ret |-> "id",
                     st |-> [st EXCEPT
                                 !.id_nonce = id,
                                 !.active_match =
                                     Some(Match_new(id, caller, unwrap(player2_pk.val)))],
                     events |-> <<Event("MatchCreated", id, 0, 0, "")>>]

\* BattleshipState::place_ships
\* mutant: the board is put back into the store before the result is looked at
Mut_place_ships_stores_failed_board(st, caller, match_id, ships) ==
    IF ~is_some(st.active_match) THEN Fail(st, Invalid("no active match"))
    ELSE LET match_state == unwrap(st.active_match)
         IN IF match_id # match_state.id THEN Fail(st, NotFound("match id"))
            ELSE IF is_finished(match_state) THEN Fail(st, Finished)
            ELSE IF ~is_player(match_state, caller)
                 THEN Fail(st, Forbidden("not a player"))
            ELSE LET pb == unwrap_or(map_get(st.boards[caller], match_id),
                                     PlayerBoard_new)
                     r == PlayerBoard_place_ships(pb, ships)
                     stored == [st EXCEPT
                                    !.boards[caller] = map_insert(@, match_id, r.pb)]
                 IN IF r.err # Ok THEN Fail(stored, r.err)
                    ELSE [err |-> Ok, ret |-> "",
                          st |-> [stored EXCEPT
                                      !.active_match =
                                          Some(IF caller = match_state.player1
                                               THEN [match_state EXCEPT !.placed_p1 = TRUE]
                                               ELSE [match_state EXCEPT !.placed_p2 = TRUE])],
                          events |-> <<Event("ShipsPlaced", match_id, 0, 0, "")>>]

Api_place_ships(st, caller, match_id, ships) ==
    IF ~is_some(st.active_match) THEN Fail(st, Invalid("no active match"))
    ELSE LET match_state == unwrap(st.active_match)
         IN IF match_id # match_state.id THEN Fail(st, NotFound("match id"))
            ELSE IF is_finished(match_state) THEN Fail(st, Finished)
            ELSE IF ~is_player(match_state, caller)
                 THEN Fail(st, Forbidden("not a player"))
            ELSE LET pb == unwrap_or(map_get(st.boards[caller], match_id),
                                     PlayerBoard_new)
                     r == PlayerBoard_place_ships(pb, ships)
                 IN IF r.err # Ok THEN Fail(st, r.err)
                    ELSE [err |-> Ok, ret |-> "",
                          st |-> [st EXCEPT
                                      !.boards[caller] = map_insert(@, match_id, r.pb),
                                      !.active_match =
                                          Some(IF caller = match_state.player1
                                               THEN [match_state EXCEPT !.placed_p1 = TRUE]
                                               ELSE [match_state EXCEPT !.placed_p2 = TRUE])],
                          events |-> <<Event("ShipsPlaced", match_id, 0, 0, "")>>]

\* BattleshipState::propose_shot
Api_propose_shot(st, caller, match_id, x, y) ==
    IF ~is_some(st.active_match) THEN Fail(st, Invalid("no active match"))
    ELSE LET match_state == unwrap(st.active_match)
         IN IF match_id # match_state.id THEN Fail(st, NotFound("match id"))
            ELSE LET r == Match_propose_shot(match_state, caller, x, y)
                 IN IF r.err # Ok THEN Fail(st, r.err)
                    ELSE [err |-> Ok, ret |-> "",
                          st |-> [st EXCEPT !.active_match = Some(r.m)],
                          events |-> <<Event("ShotProposed", match_id, x, y, "")>>]

\* mutant of acknowledge_shot: the resolved board is not put back into the store
Mut_acknowledge_shot_board_not_stored(st, caller, match_id) ==
    IF ~is_some(st.active_match) THEN Fail(st, Invalid("no active match"))
    ELSE LET match_state == unwrap(st.active_match)
         IN IF match_id # match_state.id THEN Fail(st, NotFound("match id"))
            ELSE IF is_finished(match_state) THEN Fail(st, Finished)
            ELSE LET a == Match_acknowledge_shot(match_state, caller)
                     target_pb == map_get(st.boards[caller], match_id)
                 IN IF a.err # Ok THEN Fail(st, a.err)
                    ELSE IF ~is_some(target_pb)
                         THEN Fail(st, Invalid("target board unavailable"))
                    ELSE LET r == ShotResolver_resolve_shot(a.m, unwrap(target_pb))
                         IN IF r.err # Ok THEN Fail(st, r.err)
                            ELSE IF r.panic THEN Fail(st, Panic)
                            ELSE [err |-> Ok, ret |-> r.ret,
                                  st |-> [st EXCEPT
                                              !.active_match = Some(r.m)],
                                  events |->
                                      (IF is_some(r.m.winner)
                                       THEN <<Event("Winner", match_id, 0, 0, ""),
                                              Event("MatchEnded", match_id, 0, 0, "")>>
                                       ELSE <<>>)
                                      \o <<Event("ShotFired", match_id,
                                                 unwrap_or(r.m.pending_x, 0),
                                                 unwrap_or(r.m.pending_y, 0), r.ret)>>]

\* BattleshipState::acknowledge_shot
Api_acknowledge_shot(st, caller, match_id) ==
    IF ~is_some(st.active_match) THEN Fail(st, Invalid("no active match"))
    ELSE LET match_state == unwrap(st.active_match)
         IN IF match_id # match_state.id THEN Fail(st, NotFound("match id"))
            ELSE IF is_finished(match_state) THEN Fail(st, Finished)
            ELSE LET a == Match_acknowledge_shot(match_state, caller)
                     target_pb == map_get(st.boards[caller], match_id)
                 IN IF a.err # Ok THEN Fail(st, a.err)
                    ELSE IF ~is_some(target_pb)
                         THEN Fail(st, Invalid("target board unavailable"))
                    ELSE LET r == ShotResolver_resolve_shot(a.m, unwrap(target_pb))
                         IN IF r.err # Ok THEN Fail(st, r.err)
                            ELSE IF r.panic THEN Fail(st, Panic)
                            ELSE [err |-> Ok, ret |-> r.ret,
                                  st |-> [st EXCEPT
                                              !.boards[caller] =
                                                  map_insert(@, match_id, r.pb),
                                              !.active_match = Some(r.m)],
                                  events |->
                                      (IF is_some(r.m.winner)
                                       THEN <<Event("Winner", match_id, 0, 0, ""),
                                              Event("MatchEnded", match_id, 0, 0, "")>>
                                       ELSE <<>>)
                                      \o <<Event("ShotFired", match_id,
                                                 unwrap_or(r.m.pending_x, 0),
                                                 unwrap_or(r.m.pending_y, 0), r.ret)>>]

\* BattleshipState::acknowledge_shot_handler: x and y are not used
Api_acknowledge_shot_handler(st, caller, id, x, y) ==
    Api_acknowledge_shot(st, caller, id)

\* OwnBoardView
OwnBoardView(size, board) == [size |-> size, board |-> board]

\* ShotsView
ShotsView(size, shots) == [size |-> size, shots |-> shots]

\* BattleshipState::get_own_board: the caller's board, a pending shot at the
\* caller shown on it; reads only
\* mutant: the pending shot is shown to every caller
Mut_get_own_board_shows_pending_to_all(st, caller, match_id) ==
    IF ~is_some(st.active_match) THEN Fail(st, Invalid("no active match"))
    ELSE LET match_state == unwrap(st.active_match)
             pb == map_get(st.boards[caller], match_id)
         IN IF match_id # match_state.id THEN Fail(st, NotFound("match id"))
            ELSE IF ~is_some(pb) THEN Fail(st, NotFound("match id"))
            ELSE LET board == unwrap(pb).own
                     shown ==
                         IF /\ is_some(match_state.pending_target)
                            /\ is_some(match_state.pending_x)
                            /\ is_some(match_state.pending_y)
                         THEN [board EXCEPT
                                   ![unwrap(match_state.pending_y) * BOARD_SIZE
                                         + unwrap(match_state.pending_x) + 1] =
                                       Cell_to_u8("Pending")]
                         ELSE board
                 IN [err |-> Ok, ret |-> OwnBoardView(BOARD_SIZE, shown),
                     st |-> st, events |-> <<>>]

Api_get_own_board(st, caller, match_id) ==
    IF ~is_some(st.active_match) THEN Fail(st, Invalid("no active match"))
    ELSE LET match_state == unwrap(st.active_match)
             pb == map_get(st.boards[caller], match_id)
         IN IF match_id # match_state.id THEN Fail(st, NotFound("match id"))
            ELSE IF ~is_some(pb) THEN Fail(st, NotFound("match id"))
            ELSE LET board == unwrap(pb).own
                     shown ==
                         IF /\ is_some(match_state.pending_target)
                            /\ unwrap(match_state.pending_target) = caller
                            /\ is_some(match_state.pending_x)
                            /\ is_some(match_state.pending_y)
                            /\ unwrap(match_state.pending_y) * BOARD_SIZE
                                   + unwrap(match_state.pending_x) < Len(board)
                         THEN [board EXCEPT
                                   ![unwrap(match_state.pending_y) * BOARD_SIZE
                                         + unwrap(match_state.pending_x) + 1] =
                                       Cell_to_u8("Pending")]
                         ELSE board
                 IN [err |-> Ok, ret |-> OwnBoardView(BOARD_SIZE, shown),
                     st |-> st, events |-> <<>>]

\* mutant of get_shots: the view is taken from the opponent's stored board
Mut_get_shots_of_opponent_board(st, caller, match_id) ==
    IF ~is_some(st.active_match) THEN Fail(st, Invalid("no active match"))
    ELSE LET match_state == unwrap(st.active_match)
         IN IF match_id # match_state.id THEN Fail(st, NotFound("match id"))
            ELSE IF ~is_player(match_state, caller)
                 THEN Fail(st, Forbidden("not a player"))
            ELSE LET pb == map_get(st.boards[get_opponent(match_state, caller)],
                                   match_id)
                 IN [err |-> Ok,
                     ret |-> ShotsView(BOARD_SIZE, unwrap_or(pb, PlayerBoard_new).own),
                     st |-> st, events |-> <<>>]

\* BattleshipState::get_shots: the caller's shot history; reads only
Api_get_shots(st, caller, match_id) ==
    IF ~is_some(st.active_match) THEN Fail(st, Invalid("no active match"))
    ELSE LET match_state == unwrap(st.active_match)
         IN IF match_id # match_state.id THEN Fail(st, NotFound("match id"))
            ELSE IF ~is_player(match_state, caller)
                 THEN Fail(st, Forbidden("not a player"))
            ELSE [err |-> Ok,
                  ret |-> ShotsView(BOARD_SIZE,
                                    get_shots_for_player(match_state, caller)),
                  st |-> st, events |-> <<>>]

(***************************************************************************)
(* Inputs.  Two legal fleets that differ in the destroyer, and one fleet   *)
(* without its second cruiser.                                             *)
(***************************************************************************)
MaxMatches == 2

MatchIds == 0..MaxMatches

Row(x0, y, n) == [i \in 1..n |-> Piece(x0 + i - 1, y)]

FleetL1 == <<Row(0, 0, 5), Row(0, 2, 4), Row(0, 4, 3), Row(0, 6, 3), Row(0, 8, 2)>>

FleetL2 == <<Row(0, 0, 5), Row(0, 2, 4), Row(0, 4, 3), Row(0, 6, 3), Row(8, 8, 2)>>

FleetShort == <<Row(0, 0, 5), Row(0, 2, 4), Row(0, 4, 3), Row(0, 8, 2)>>

Submissions == {FleetL1, FleetL2, FleetShort}

Creators == {"A"}

Invitees == {"A", "B"}

\* shots a player may pick freely: a cell both fleets occupy, a cell only FleetL1
\* occupies, a cell neither occupies, a cell off the board
FreeShots == {Coord(0, 0), Coord(0, 8), Coord(9, 9), Coord(BOARD_SIZE, 0)}

\* a player who sweeps: the cells of FleetL1, then the destroyer of FleetL2
HuntOrder ==
    [i \in 1..5 |-> Coord(i - 1, 0)] \o [i \in 1..4 |-> Coord(i - 1, 2)]
    \o [i \in 1..3 |-> Coord(i - 1, 4)] \o [i \in 1..3 |-> Coord(i - 1, 6)]
    \o <<Coord(0, 8), Coord(1, 8), Coord(8, 8), Coord(9, 8)>>

\* the first cell of HuntOrder the player has not fired at yet
HuntShots(caller) ==
    IF ~is_some(active_match) THEN {}
    ELSE LET shots == get_shots_for_player(unwrap(active_match), caller)
             fresh == {i \in 1..Len(HuntOrder) :
                           Board_get(shots, BOARD_SIZE, HuntOrder[i].x, HuntOrder[i].y)
                               = "Empty"}
         IN {HuntOrder[i] : i \in {j \in fresh : \A k \in fresh : j <= k}}

HasMatch == is_some(active_match)

M == unwrap(active_match)

(***************************************************************************)
(* The state machine.  last is the call that made the latest step.         *)
(***************************************************************************)
Called(op, caller, r) ==
    [op |-> op, caller |-> caller, ret |-> r.ret, events |-> r.events]

Commit(op, caller, r) ==
    /\ r.err = Ok
    /\ id_nonce' = r.st.id_nonce
    /\ active_match' = r.st.active_match
    /\ boards' = r.st.boards
    /\ last' = Called(op, caller, r)
    /\ twin' = twin
    /\ pboard' = pboard
    /\ ship' = ship

Init ==
    /\ id_nonce = BattleshipState_init.id_nonce
    /\ active_match = BattleshipState_init.active_match
    /\ boards = BattleshipState_init.boards
    /\ last = [op |-> "init", caller |-> "", ret |-> "", events |-> <<>>]
    /\ twin = [st |-> BattleshipState_init, ships |-> None]
    /\ pboard = [pb |-> PlayerBoard_new, err |-> Ok, ships |-> None]
    /\ ship = [coords |-> <<>>, result |-> None]

CreateMatch(caller, player2) ==
    /\ id_nonce < MaxMatches
    /\ Commit("create_match", caller, Api_create_match(St, caller, player2))

PlaceShips(caller, match_id, ships) ==
    Commit("place_ships", caller, Api_place_ships(St, caller, match_id, ships))

ProposeShot(caller, match_id, x, y) ==
    Commit("propose_shot", caller, Api_propose_shot(St, caller, match_id, x, y))

AcknowledgeShot(caller, match_id) ==
    Commit("acknowledge_shot", caller, Api_acknowledge_shot(St, caller, match_id))

AcknowledgeShotHandler(caller, id, x, y) ==
    Commit("acknowledge_shot_handler", caller,
           Api_acknowledge_shot_handler(St, caller, id, x, y))

Setup ==
    \/ \E caller \in Creators, player2 \in Invitees : CreateMatch(caller, player2)
    \/ \E caller \in Identities, match_id \in MatchIds, ships \in Submissions :
           PlaceShips(caller, match_id, ships)

Acknowledge ==
    \/ \E caller \in Identities, match_id \in MatchIds :
           AcknowledgeShot(caller, match_id)
    \/ \E caller \in Identities, match_id \in MatchIds :
           AcknowledgeShotHandler(caller, match_id, 0, 0)

\* free play: every player picks among FreeShots
Next ==
    \/ Setup
    \/ \E caller \in Identities, match_id \in MatchIds, c \in FreeShots :
           ProposeShot(caller, match_id, c.x, c.y)
    \/ Acknowledge

Spec == Init /\ [][Next]_vars

\* sweeping play: every player fires at the next cell of HuntOrder
NextHunt ==
    \/ Setup
    \/ \E caller \in Identities, match_id \in MatchIds :
           \E c \in HuntShots(caller) : ProposeShot(caller, match_id, c.x, c.y)
    \/ Acknowledge

SpecHunt == Init /\ [][NextHunt]_vars

\* sweeping play in which the turn-holder's next shot is proposed in the end, and
\* a pending shot is acknowledged by its target in the end
TurnHolderHunts ==
    /\ HasMatch
    /\ \E c \in HuntShots(M.turn) :
           \E r \in {Api_propose_shot(St, M.turn, M.id, c.x, c.y)} :
               Commit("propose_shot", M.turn, r)

TargetAcknowledges ==
    /\ HasMatch
    /\ is_some(M.pending_target)
    /\ \E r \in {Api_acknowledge_shot(St, unwrap(M.pending_target), M.id)} :
           Commit("acknowledge_shot", unwrap(M.pending_target), r)

SpecHuntFair ==
    Init /\ [][NextHunt]_vars /\ WF_vars(TurnHolderHunts) /\ WF_vars(TargetAcknowledges)

(***************************************************************************)
(* Two copies side by side.  Every call is made on both copies with the    *)
(* same caller and arguments, except that Hidden, the invited player, may  *)
(* place one legal fleet in the first copy and another in the second;      *)
(* twin.st is the state of the second copy and twin.ships the two fleets   *)
(* Hidden placed for the running match.  A copy in which the call fails    *)
(* stays as it is.                                                         *)
(***************************************************************************)
Hidden == "B"

Seeker == "A"

Layouts == {FleetL1, FleetL2}

TwinCommit(op, caller, r, r2, ships) ==
    /\ r.err = Ok \/ r2.err = Ok
    /\ id_nonce' = r.st.id_nonce
    /\ active_match' = r.st.active_match
    /\ boards' = r.st.boards
    /\ last' = IF r.err = Ok THEN Called(op, caller, r) ELSE last
    /\ twin' = [st |-> r2.st, ships |-> ships]
    /\ pboard' = pboard
    /\ ship' = ship

TwinCreateMatch(caller, player2) ==
    /\ id_nonce < MaxMatches
    /\ twin.st.id_nonce < MaxMatches
    /\ TwinCommit("create_match", caller,
                  Api_create_match(St, caller, player2),
                  Api_create_match(twin.st, caller, player2), None)

TwinPlaceShips(caller, match_id, ships, ships2) ==
    TwinCommit("place_ships", caller,
               Api_place_ships(St, caller, match_id, ships),
               Api_place_ships(twin.st, caller, match_id, ships2),
               IF caller = Hidden THEN Some(<<ships, ships2>>) ELSE twin.ships)

TwinProposeShot(caller, match_id, x, y) ==
    TwinCommit("propose_shot", caller,
               Api_propose_shot(St, caller, match_id, x, y),
               Api_propose_shot(twin.st, caller, match_id, x, y), twin.ships)

TwinAcknowledgeShot(caller, match_id) ==
    TwinCommit("acknowledge_shot", caller,
               Api_acknowledge_shot(St, caller, match_id),
               Api_acknowledge_shot(twin.st, caller, match_id), twin.ships)

TwinAcknowledgeShotHandler(caller, id, x, y) ==
    TwinCommit("acknowledge_shot_handler", caller,
               Api_acknowledge_shot_handler(St, caller, id, x, y),
               Api_acknowledge_shot_handler(twin.st, caller, id, x, y), twin.ships)

NextTwin ==
    \/ \E caller \in Creators, player2 \in Invitees : TwinCreateMatch(caller, player2)
    \/ \E caller \in Identities \ {Hidden}, match_id \in MatchIds, ships \in Submissions :
           TwinPlaceShips(caller, match_id, ships, ships)
    \/ \E match_id \in MatchIds, ships \in Layouts, ships2 \in Layouts :
           TwinPlaceShips(Hidden, match_id, ships, ships2)
    \/ \E caller \in Identities, match_id \in MatchIds, c \in FreeShots :
           TwinProposeShot(caller, match_id, c.x, c.y)
    \/ \E caller \in Identities, match_id \in MatchIds :
           TwinAcknowledgeShot(caller, match_id)
    \/ \E caller \in Identities, match_id \in MatchIds :
           TwinAcknowledgeShotHandler(caller, match_id, 0, 0)

SpecTwin == Init /\ [][NextTwin]_vars

(***************************************************************************)
(* One PlayerBoard, called directly.  pboard.pb is the board as the latest *)
(* call left it, pboard.err what that call returned and pboard.ships what  *)
(* it was given.                                                           *)
(***************************************************************************)
Col(x, y0, n) == [i \in 1..n |-> Piece(x, y0 + i - 1)]

\* a legal fleet on the right half of the board
FleetFar == <<Row(5, 0, 5), Row(5, 2, 4), Row(5, 4, 3), Row(5, 6, 3), Row(5, 8, 2)>>

\* FleetFar with an empty group, a group of pieces that are no coordinates, and
\* such pieces among those of the destroyer: no number, off the board, no u8
FleetNoisy ==
    <<Row(5, 0, 5), <<>>, Row(5, 2, 4), Row(5, 4, 3),
      <<Piece(NotANumber, NotANumber), Piece(BOARD_SIZE, BOARD_SIZE)>>, Row(5, 6, 3),
      <<Piece(5, 8), Piece(NotANumber, 8), Piece(BOARD_SIZE, 8), Piece(6, 8),
        Piece(6, U8_MAX + 1)>>>>

\* the composition of a legal fleet, the destroyer touching a cruiser diagonally
FleetDiagonal == <<Row(5, 0, 5), Row(5, 2, 4), Row(5, 4, 3), Row(5, 6, 3), Row(8, 7, 2)>>

\* a legal fleet and a second destroyer
FleetSix == FleetFar \o <<Row(0, 9, 2)>>

\* "0,0;0,1;0,2" and "2,0;2,1;2,2;2,3", the example of the PlayerBoard documentation
DocExample == <<Col(0, 0, 3), Col(2, 0, 4)>>

\* (0,0)-(0,1) and (1,0)-(1,1): two ships side by side
Touching == <<Col(0, 0, 2), Col(1, 0, 2)>>

\* submissions a per-ship check rejects: the second ship on a cell of the first,
\* a gap, a bend, one cell, six cells, a cell off the board
Malformed ==
    {<<Row(0, 5, 3), Col(1, 5, 2)>>,
     <<<<Piece(0, 7), Piece(2, 7)>>>>,
     <<<<Piece(0, 7), Piece(1, 7), Piece(1, 8)>>>>,
     <<<<Piece(0, 7)>>>>,
     <<Row(0, 7, 6)>>,
     <<<<Piece(9, 9), Piece(BOARD_SIZE, 9)>>>>}

\* single ships, each a submission of its own
Singles == {<<Row(0, 5, 2)>>, <<Row(0, 7, 3)>>, <<Row(0, 9, 4)>>}

BoardSubmissions ==
    Submissions \cup Singles \cup Malformed \cup
    {FleetFar, FleetNoisy, FleetDiagonal, FleetSix, DocExample, Touching, <<>>}

\* the submissions of BoardSubmissions that are a legal fleet
LegalFleets == {FleetL1, FleetL2, FleetFar, FleetNoisy}

\* a direct call of PlayerBoard::place_ships on pboard.pb
BoardPlaceShips(ships) ==
    /\ LET r == PlayerBoard_place_ships(pboard.pb, ships)
       IN pboard' = [pb |-> r.pb, err |-> r.err, ships |-> Some(ships)]
    /\ UNCHANGED <<id_nonce, active_match, boards, last, twin, ship>>

NextBoard == \E ships \in BoardSubmissions : BoardPlaceShips(ships)

SpecBoard == Init /\ [][NextBoard]_vars

(***************************************************************************)
(* One coordinate list handed to Ship::new.  The lists are those of up to  *)
(* MaxShipLen cells over ShipCells0, and straight runs of up to six cells. *)
(***************************************************************************)
MaxShipLen == 3

ShipCells0 ==
    {Coord(0, 0), Coord(1, 0), Coord(2, 0), Coord(0, 1), Coord(1, 1), Coord(0, 2),
     Coord(BOARD_SIZE, 0)}

Line(x0, y0, dx, dy, n) == [i \in 1..n |-> Coord(x0 + (i - 1) * dx, y0 + (i - 1) * dy)]

ShipLists ==
    UNION {[1..n -> ShipCells0] : n \in 0..MaxShipLen}
        \cup {Line(0, 0, 1, 0, n) : n \in 4..6}
        \cup {Line(3, 1, 0, 1, n) : n \in 4..6}
        \cup {Line(6, 0, 1, 0, 5), Line(0, 0, 2, 0, 4), Line(0, 0, 1, 1, 4)}

InitShip ==
    /\ id_nonce = BattleshipState_init.id_nonce
    /\ active_match = BattleshipState_init.active_match
    /\ boards = BattleshipState_init.boards
    /\ last = [op |-> "init", caller |-> "", ret |-> "", events |-> <<>>]
    /\ twin = [st |-> BattleshipState_init, ships |-> None]
    /\ pboard = [pb |-> PlayerBoard_new, err |-> Ok, ships |-> None]
    /\ ship \in {[coords |-> l, result |-> None] : l \in ShipLists}

\* Ship::new(ship.coords)
ShipNew ==
    /\ ship.result = None
    /\ ship' = [ship EXCEPT !.result = Some(Ship_new(ship.coords))]
    /\ UNCHANGED <<id_nonce, active_match, boards, last, twin, pboard>>

NextShip == ShipNew

SpecShip == InitShip /\ [][NextShip]_vars

(***************************************************************************)
(* Vocabulary of the properties.                                           *)
(***************************************************************************)
\* coordinates a call is tried with: FreeShots and two more off the board
TestShots == FreeShots \cup {Coord(0, BOARD_SIZE), Coord(U8_MAX, U8_MAX)}

\* a step within one match: the same match before and after
SameMatch ==
    /\ is_some(active_match)
    /\ is_some(active_match')
    /\ unwrap(active_match').id = unwrap(active_match).id

\* the step is a successful propose_shot
ProposeStep == SameMatch /\ last'.op = "propose_shot" /\ vars' # vars

\* the step is a successful API acknowledge_shot (direct or by the handler),
\* which resolves the pending shot
ResolveStep ==
    /\ SameMatch
    /\ last'.op \in {"acknowledge_shot", "acknowledge_shot_handler"}
    /\ vars' # vars

PendingFields(m) == <<m.pending_x, m.pending_y, m.pending_shooter, m.pending_target>>

AllPresent(m) == \A i \in 1..4 : PendingFields(m)[i] # None

AllAbsent(m) == \A i \in 1..4 : PendingFields(m)[i] = None

\* the 0-based indices of the cells of a board that hold the cell state c
CellsHolding(b, c) == {i \in 1..Len(b) : b[i] = Cell_to_u8(c)}

(***************************************************************************)
(* C1.  propose_shot succeeds only if both players have placed and no shot *)
(* is pending at the time of the call: in every reachable state no caller  *)
(* and no coordinate makes Match::propose_shot return Ok otherwise, and    *)
(* every propose_shot step starts from such a state.                       *)
(***************************************************************************)
C1_ProposeNeedsPlacedAndIdle ==
    /\ [](HasMatch =>
            \A shooter \in Identities, c \in TestShots :
                Match_propose_shot(M, shooter, c.x, c.y).err = Ok
                    => M.placed_p1 /\ M.placed_p2 /\ AllAbsent(M))
    /\ [][ProposeStep => M.placed_p1 /\ M.placed_p2 /\ AllAbsent(M)]_vars

C1_Witness ==
    /\ HasMatch
    /\ last.op = "propose_shot"
    /\ M.placed_p1 /\ M.placed_p2
    /\ is_some(M.pending_x)

(***************************************************************************)
(* C2.  Turn alternation: a resolution that produces no winner leaves the  *)
(* turn with the opponent of the player who proposed the shot; no other    *)
(* step of a match changes the turn (propose_shot and                      *)
(* Match::acknowledge_shot in particular), and a shot is proposed by the   *)
(* turn-holder, so the shooters of successive resolved shots alternate.    *)
(***************************************************************************)
C2_TurnAlternates ==
    /\ [](HasMatch => \A t \in Identities : Match_acknowledge_shot(M, t).m.turn = M.turn)
    /\ [][SameMatch =>
            LET m == unwrap(active_match)
                m2 == unwrap(active_match')
            IN /\ ProposeStep =>
                      m2.turn = m.turn /\ m2.pending_shooter = Some(m.turn)
               /\ (ResolveStep /\ ~is_some(m2.winner)) =>
                      /\ is_some(m.pending_shooter)
                      /\ m2.turn = get_opponent(m, unwrap(m.pending_shooter))
                      /\ m2.turn # unwrap(m.pending_shooter)
               /\ ~ResolveStep => m2.turn = m.turn]_vars

C2_Witness ==
    /\ HasMatch
    /\ last.op = "acknowledge_shot"
    /\ last.caller = M.player2
    /\ ~is_some(M.winner)
    /\ M.turn = M.player2

(***************************************************************************)
(* C3.  Win detection: a resolution that is a hit and leaves the target's  *)
(* remaining-ship counter at zero makes the shooter of that shot the       *)
(* winner and does not switch the turn (it stays with the shooter); a      *)
(* resolution that leaves the counter above zero sets no winner.           *)
(***************************************************************************)
C3_WinDetection ==
    [][ResolveStep =>
          LET m == unwrap(active_match)
              m2 == unwrap(active_match')
              shooter == unwrap(m.pending_shooter)
              target == unwrap(m.pending_target)
              pb2 == boards'[target][m.id]
          IN /\ (last'.ret = "hit" /\ pb2.ships = 0) =>
                    /\ m2.winner = Some(shooter)
                    /\ m2.turn = m.turn
                    /\ m2.turn = shooter
             /\ pb2.ships > 0 => m2.winner = None]_vars

C3_Witness ==
    /\ HasMatch
    /\ last.ret = "hit"
    /\ M.winner = Some(M.player1)
    /\ M.turn = M.player1
    /\ boards[M.player2][M.id].ships = 0

(***************************************************************************)
(* C4.  Finished is terminal: once the match has a winner, propose_shot,   *)
(* acknowledge_shot, its handler, the resolution and place_ships all fail  *)
(* for every caller and input and commit nothing, and no step changes any  *)
(* field of that match (turn, winner, placement flags, pending fields,     *)
(* both shot-history boards).                                              *)
(***************************************************************************)
C4_FinishedIsTerminal ==
    /\ []((HasMatch /\ is_some(M.winner)) =>
            /\ \A caller \in Identities, c \in TestShots :
                   /\ Match_propose_shot(M, caller, c.x, c.y).err # Ok
                   /\ Api_propose_shot(St, caller, M.id, c.x, c.y).err # Ok
                   /\ Api_propose_shot(St, caller, M.id, c.x, c.y).st = St
                   /\ Api_acknowledge_shot_handler(St, caller, M.id, c.x, c.y).err # Ok
                   /\ Api_acknowledge_shot_handler(St, caller, M.id, c.x, c.y).st = St
            /\ \A caller \in Identities :
                   /\ Match_acknowledge_shot(M, caller).err # Ok
                   /\ Api_acknowledge_shot(St, caller, M.id).err # Ok
                   /\ Api_acknowledge_shot(St, caller, M.id).st = St
                   /\ \A k \in DOMAIN boards[caller] :
                          ShotResolver_resolve_shot(M, boards[caller][k]).err # Ok
            /\ \A is_hit \in BOOLEAN : Match_resolve_shot(M, is_hit).panic
            /\ \A caller \in Identities, ships \in Submissions :
                   /\ Api_place_ships(St, caller, M.id, ships).err # Ok
                   /\ Api_place_ships(St, caller, M.id, ships).st = St)
    /\ [][(SameMatch /\ is_some(unwrap(active_match).winner))
              => active_match' = active_match]_vars

C4_Witness ==
    /\ HasMatch
    /\ is_some(M.winner)
    /\ Api_propose_shot(St, M.turn, M.id, 9, 9).err = Finished
    /\ Api_acknowledge_shot(St, get_opponent(M, M.turn), M.id).err = Finished
    /\ Api_place_ships(St, M.turn, M.id, FleetL1).err = Finished

(***************************************************************************)
(* C5.  set_winner is one-way: once a match has a winner, no later call of *)
(* set_winner and no other operation of that match changes the winner to   *)
(* another player or back to none, and is_finished() stays true.           *)
(***************************************************************************)
C5_WinnerOneWay ==
    /\ []((HasMatch /\ is_finished(M)) =>
            \A p \in {M.player1, M.player2} :
                /\ set_winner(M, p).winner = M.winner
                /\ is_finished(set_winner(M, p)))
    /\ [][(SameMatch /\ is_some(unwrap(active_match).winner)) =>
              /\ unwrap(active_match').winner = unwrap(active_match).winner
              /\ is_finished(unwrap(active_match'))]_vars

(***************************************************************************)
(* C6.  The four pending-shot fields are all present or all absent in      *)
(* every reachable match, and in the match every operation leaves behind   *)
(* (propose_shot, acknowledge_shot, resolve_shot,                          *)
(* ShotResolver::resolve_shot), whether it succeeds or fails.              *)
(***************************************************************************)
AllOrNone(m) == AllPresent(m) \/ AllAbsent(m)

C6_PendingAllOrNone ==
    HasMatch =>
        /\ AllOrNone(M)
        /\ \A caller \in Identities, c \in TestShots :
               AllOrNone(Match_propose_shot(M, caller, c.x, c.y).m)
        /\ \A caller \in Identities :
               /\ AllOrNone(Match_acknowledge_shot(M, caller).m)
               /\ \A k \in DOMAIN boards[caller] :
                      AllOrNone(ShotResolver_resolve_shot(M, boards[caller][k]).m)
        /\ \A is_hit \in BOOLEAN : AllOrNone(Match_resolve_shot(M, is_hit).m)

C6_Witness ==
    /\ HasMatch
    /\ AllPresent(M)
    /\ M.pending_shooter = Some(M.player2)
    /\ AllAbsent(ShotResolver_resolve_shot(M, boards[M.player1][M.id]).m)

(***************************************************************************)
(* C7.  While a shot is pending its shooter is the turn-holder, its target *)
(* is the other player of the match, and exactly one cell of the two       *)
(* shot-history boards is Pending: the cell (x,y) of the shooter's board.  *)
(* While no shot is pending no shot-history cell is Pending.               *)
(***************************************************************************)
C7_PendingShotShape ==
    HasMatch =>
        IF is_some(M.pending_x)
        THEN LET shooter == unwrap(M.pending_shooter)
                 target == unwrap(M.pending_target)
                 at == {unwrap(M.pending_y) * BOARD_SIZE + unwrap(M.pending_x) + 1}
             IN /\ shooter = M.turn
                /\ {shooter, target} = {M.player1, M.player2}
                /\ shooter # target
                /\ CellsHolding(M.shots_p1, "Pending")
                       = (IF shooter = M.player1 THEN at ELSE {})
                /\ CellsHolding(M.shots_p2, "Pending")
                       = (IF shooter = M.player2 THEN at ELSE {})
        ELSE /\ CellsHolding(M.shots_p1, "Pending") = {}
             /\ CellsHolding(M.shots_p2, "Pending") = {}

C7_Witness ==
    /\ HasMatch
    /\ M.pending_shooter = Some(M.player2)
    /\ M.pending_x = Some(9) /\ M.pending_y = Some(9)
    /\ CellsHolding(M.shots_p2, "Pending") = {100}
    /\ CellsHolding(M.shots_p1, "Miss") # {}

(***************************************************************************)
(* C8.  The phase of a match, derived from its fields, only moves          *)
(* Setup -> Active -> ShotPending -> (Active | Finished): never from Setup *)
(* to ShotPending or Finished, never from Active to Finished or back to    *)
(* Setup, never out of ShotPending to Setup, never out of Finished.        *)
(***************************************************************************)
Phase(m) ==
    IF m.winner # None THEN "Finished"
    ELSE IF m.pending_x # None THEN "ShotPending"
    ELSE IF m.placed_p1 /\ m.placed_p2 THEN "Active"
    ELSE "Setup"

PhaseMoves ==
    {<<"Setup", "Setup">>, <<"Setup", "Active">>, <<"Active", "ShotPending">>,
     <<"ShotPending", "Active">>, <<"ShotPending", "Finished">>}

C8_PhaseOrder ==
    [][SameMatch =>
          LET from == Phase(unwrap(active_match))
              to == Phase(unwrap(active_match'))
          IN \/ <<from, to>> \in PhaseMoves
             \/ from = to /\ active_match' = active_match]_vars

C8_Witness ==
    /\ HasMatch
    /\ Phase(M) = "Finished"
    /\ M.id = 2
    /\ last.op = "acknowledge_shot_handler"

(***************************************************************************)
(* C9.  A successful propose_shot(shooter, x, y) sets the shooter's        *)
(* shot-history cell (x,y) to Pending and records (x, y, shooter,          *)
(* opponent of shooter) as the pending shot; the turn, the winner, the     *)
(* placement flags, every other cell of the shooter's shot-history and the *)
(* opponent's shot-history are unchanged.                                  *)
(***************************************************************************)
C9_ProposeFrame ==
    [][ProposeStep =>
          LET m == unwrap(active_match)
              m2 == unwrap(active_match')
              shooter == last'.caller
              x == last'.events[1].x
              y == last'.events[1].y
              at == y * BOARD_SIZE + x + 1
              first == shooter = m.player1
              mine == IF first THEN m.shots_p1 ELSE m.shots_p2
              mine2 == IF first THEN m2.shots_p1 ELSE m2.shots_p2
              theirs == IF first THEN m.shots_p2 ELSE m.shots_p1
              theirs2 == IF first THEN m2.shots_p2 ELSE m2.shots_p1
          IN /\ shooter \in {m.player1, m.player2}
             /\ PendingFields(m2) =
                    <<Some(x), Some(y), Some(shooter),
                      Some(IF first THEN m.player2 ELSE m.player1)>>
             /\ mine2[at] = 4
             /\ \A i \in 1..Len(mine) : i # at => mine2[i] = mine[i]
             /\ Len(mine2) = Len(mine)
             /\ theirs2 = theirs
             /\ m2.turn = m.turn
             /\ m2.winner = m.winner
             /\ m2.placed_p1 = m.placed_p1 /\ m2.placed_p2 = m.placed_p2
             /\ <<m2.id, m2.player1, m2.player2>> = <<m.id, m.player1, m.player2>>
             /\ boards' = boards /\ id_nonce' = id_nonce]_vars

C9_Witness ==
    /\ HasMatch
    /\ last.op = "propose_shot"
    /\ last.caller = M.player1
    /\ M.pending_x = Some(0) /\ M.pending_y = Some(8)
    /\ M.shots_p1[81] = 4
    /\ M.turn = M.player1

(***************************************************************************)
(* C10.  propose_shot fails when the match is finished, when not both      *)
(* players have placed, when x or y is off the board, when a shot is       *)
(* pending, when the shooter is not a player of the match, and when it is  *)
(* not the shooter's turn; a failing propose_shot leaves the match (and    *)
(* the whole state) exactly as it was.                                     *)
(***************************************************************************)
C10_ProposeFailures ==
    HasMatch =>
        \A shooter \in Identities, c \in TestShots :
            LET r == Match_propose_shot(M, shooter, c.x, c.y)
                a == Api_propose_shot(St, shooter, M.id, c.x, c.y)
            IN /\ (\/ M.winner # None
                   \/ ~(M.placed_p1 /\ M.placed_p2)
                   \/ c.x >= BOARD_SIZE \/ c.y >= BOARD_SIZE
                   \/ M.pending_x # None
                   \/ shooter \notin {M.player1, M.player2}
                   \/ shooter # M.turn)
                      => r.err # Ok /\ a.err # Ok
               /\ r.err # Ok => r.m = M
               /\ a.err # Ok => a.st = St

C10_Witness ==
    /\ HasMatch
    /\ Phase(M) = "Active"
    /\ last.ret = "miss"
    /\ Match_propose_shot(M, get_opponent(M, M.turn), 0, 0).err
           = Forbidden("not your turn")
    /\ Match_propose_shot(M, "C", 0, 0).err = Forbidden("not a player")
    /\ Match_propose_shot(M, M.turn, BOARD_SIZE, 0).err = Invalid("out of bounds")

(***************************************************************************)
(* Vocabulary of the resolution properties: the pending shot of a match m  *)
(* and the stored board of its target.                                     *)
(***************************************************************************)
\* the index of cell (x,y) in a board of the model (boards are 1-based here)
At(x, y) == Board_idx(BOARD_SIZE, x, y) + 1

PendingAt(m) == At(unwrap(m.pending_x), unwrap(m.pending_y))

\* the stored board of player p for match m
StoredBoard(bs, p, m) == bs[p][m.id]

\* the checks Match::propose_shot makes before it looks at the caller
BeforeCallerChecks(m, x, y) ==
    /\ m.winner = None
    /\ m.placed_p1 /\ m.placed_p2
    /\ x < BOARD_SIZE /\ y < BOARD_SIZE
    /\ m.pending_x = None

Unauthorized(m, shooter) == shooter \notin {m.player1, m.player2} \/ shooter # m.turn

\* an acknowledge_shot by a caller who is not the pending target is Forbidden
NotTargetIsForbidden ==
    \A caller \in Identities :
        (is_some(M.pending_target) /\ unwrap(M.pending_target) # caller) =>
            /\ Match_acknowledge_shot(M, caller).err.kind = "Forbidden"
            /\ Api_acknowledge_shot(St, caller, M.id).err.kind = "Forbidden"

(***************************************************************************)
(* C11 as claimed.  A propose_shot by a caller who is not a player or not  *)
(* the turn-holder fails with kind Forbidden, and an acknowledge_shot by a *)
(* caller who is not the pending target fails with kind Forbidden, in      *)
(* every state in which the call is made.                                  *)
(***************************************************************************)
C11_ForbiddenInEveryState ==
    HasMatch =>
        /\ \A shooter \in Identities, c \in TestShots :
               Unauthorized(M, shooter) =>
                   /\ Match_propose_shot(M, shooter, c.x, c.y).err.kind = "Forbidden"
                   /\ Api_propose_shot(St, shooter, M.id, c.x, c.y).err.kind = "Forbidden"
        /\ NotTargetIsForbidden

(***************************************************************************)
(* C11 as amended.  Such a propose_shot fails with kind Forbidden when the *)
(* match is not finished, both players have placed, the coordinates are on *)
(* the board and no shot is pending; when one of these earlier checks      *)
(* fails, the call fails with the Finished or Invalid of that check.  An   *)
(* acknowledge_shot by a caller who is not the pending target fails with   *)
(* kind Forbidden.                                                         *)
(***************************************************************************)
C11_ForbiddenAfterStateChecks ==
    HasMatch =>
        /\ \A shooter \in Identities, c \in TestShots :
               LET r == Match_propose_shot(M, shooter, c.x, c.y)
                   a == Api_propose_shot(St, shooter, M.id, c.x, c.y)
               IN Unauthorized(M, shooter) =>
                      /\ BeforeCallerChecks(M, c.x, c.y) =>
                             /\ r.err.kind = "Forbidden"
                             /\ a.err.kind = "Forbidden"
                             /\ shooter \notin {M.player1, M.player2}
                                    => r.err = Forbidden("not a player")
                             /\ shooter \in {M.player1, M.player2}
                                    => r.err = Forbidden("not your turn")
                      /\ ~BeforeCallerChecks(M, c.x, c.y) =>
                             /\ r.err.kind \in {"Finished", "Invalid"}
                             /\ a.err = r.err
        /\ NotTargetIsForbidden

C11_Witness ==
    /\ HasMatch
    /\ BeforeCallerChecks(M, 0, 0)
    /\ last.ret = "hit"
    /\ Api_propose_shot(St, "C", M.id, 0, 0).err = Forbidden("not a player")
    /\ Api_propose_shot(St, get_opponent(M, M.turn), M.id, 0, 0).err
           = Forbidden("not your turn")
    /\ Api_propose_shot(St, "C", M.id, 0, BOARD_SIZE).err = Invalid("out of bounds")

(***************************************************************************)
(* C12.  place_ships, propose_shot, acknowledge_shot, get_own_board and    *)
(* get_shots fail with kind NotFound and change no state when there is no  *)
(* active match or when the id given is not the id of the active match.    *)
(***************************************************************************)
C12_UnknownMatchIsNotFound ==
    \A caller \in Identities, id \in MatchIds :
        (~HasMatch \/ id # M.id) =>
            /\ \A ships \in Submissions :
                   /\ Api_place_ships(St, caller, id, ships).err.kind = "NotFound"
                   /\ Api_place_ships(St, caller, id, ships).st = St
            /\ Api_propose_shot(St, caller, id, 0, 0).err.kind = "NotFound"
            /\ Api_propose_shot(St, caller, id, 0, 0).st = St
            /\ Api_acknowledge_shot(St, caller, id).err.kind = "NotFound"
            /\ Api_acknowledge_shot(St, caller, id).st = St
            /\ Api_get_own_board(St, caller, id).err.kind = "NotFound"
            /\ Api_get_own_board(St, caller, id).st = St
            /\ Api_get_shots(St, caller, id).err.kind = "NotFound"
            /\ Api_get_shots(St, caller, id).st = St

(***************************************************************************)
(* C13.  Match::acknowledge_shot(target) succeeds exactly when a shot is   *)
(* pending and the caller is its recorded target, and, succeeding or       *)
(* failing, it leaves every field of the match as it was.                  *)
(***************************************************************************)
C13_AcknowledgeReadsOnly ==
    HasMatch =>
        \A target \in Identities :
            LET r == Match_acknowledge_shot(M, target)
            IN /\ r.err = Ok <=>
                      (has_pending_shot(M) /\ M.pending_target = Some(target))
               /\ r.m = M

C13_Witness ==
    /\ HasMatch
    /\ has_pending_shot(M)
    /\ M.pending_target = Some(M.player1)
    /\ Match_acknowledge_shot(M, M.player1).err = Ok
    /\ Match_acknowledge_shot(M, M.player2).err = Forbidden("not the target")

(***************************************************************************)
(* C14.  A resolution returns "hit" exactly when the target's stored board *)
(* holds Ship at the pending coordinates, and "miss" otherwise; it writes  *)
(* Hit or Miss accordingly into the shooter's shot-history cell at those   *)
(* coordinates, changes no other shot-history cell, and clears the pending *)
(* shot.                                                                   *)
(***************************************************************************)
C14_ResolutionTellsTheTruth ==
    [][ResolveStep =>
          LET m == unwrap(active_match)
              m2 == unwrap(active_match')
              shooter == unwrap(m.pending_shooter)
              target == unwrap(m.pending_target)
              at == PendingAt(m)
              was_ship == StoredBoard(boards, target, m).own[at] = Cell_to_u8("Ship")
              first == shooter = m.player1
              mine == IF first THEN m.shots_p1 ELSE m.shots_p2
              mine2 == IF first THEN m2.shots_p1 ELSE m2.shots_p2
              theirs == IF first THEN m.shots_p2 ELSE m.shots_p1
              theirs2 == IF first THEN m2.shots_p2 ELSE m2.shots_p1
          IN /\ last'.ret = (IF was_ship THEN "hit" ELSE "miss")
             /\ mine2[at] = Cell_to_u8(IF was_ship THEN "Hit" ELSE "Miss")
             /\ Len(mine2) = Len(mine)
             /\ \A i \in 1..Len(mine) : i # at => mine2[i] = mine[i]
             /\ theirs2 = theirs
             /\ AllAbsent(m2)]_vars

C14_Witness ==
    /\ HasMatch
    /\ last.op = "acknowledge_shot"
    /\ last.caller = M.player2
    /\ last.ret = "hit"
    /\ M.shots_p1[At(0, 0)] = Cell_to_u8("Hit")
    /\ M.shots_p1[At(9, 9)] = Cell_to_u8("Miss")
    /\ AllAbsent(M)

(***************************************************************************)
(* C15.  On a hit the target's own-board cell at the pending coordinates   *)
(* goes from Ship to Hit, the target's remaining-ship counter goes down by *)
(* exactly 1, and every other cell of that board stays as it was.          *)
(***************************************************************************)
C15_HitMarksOneCell ==
    [][ResolveStep =>
          LET m == unwrap(active_match)
              target == unwrap(m.pending_target)
              at == PendingAt(m)
              pb == StoredBoard(boards, target, m)
              pb2 == StoredBoard(boards', target, m)
          IN pb.own[at] = Cell_to_u8("Ship") =>
                 /\ last'.ret = "hit"
                 /\ pb2.own[at] = Cell_to_u8("Hit")
                 /\ pb2.ships = pb.ships - 1
                 /\ pb2.ships >= 0
                 /\ Len(pb2.own) = Len(pb.own)
                 /\ \A i \in 1..Len(pb.own) : i # at => pb2.own[i] = pb.own[i]]_vars

C15_Witness ==
    /\ HasMatch
    /\ last.ret = "hit"
    /\ last.caller = M.player1
    /\ StoredBoard(boards, M.player1, M).own[At(0, 8)] = Cell_to_u8("Hit")
    /\ StoredBoard(boards, M.player1, M).own[At(1, 8)] = Cell_to_u8("Ship")
    /\ CellsHolding(StoredBoard(boards, M.player1, M).own, "Ship")
           # {}

(***************************************************************************)
(* C16.  When the target's own-board cell at the pending coordinates is    *)
(* not Ship, the resolution leaves the target's stored board as it was:    *)
(* every cell, the cell shot at included, and the remaining-ship counter.  *)
(***************************************************************************)
C16_MissLeavesBoardAlone ==
    [][ResolveStep =>
          LET m == unwrap(active_match)
              target == unwrap(m.pending_target)
              pb == StoredBoard(boards, target, m)
          IN pb.own[PendingAt(m)] # Cell_to_u8("Ship") =>
                 StoredBoard(boards', target, m) = pb]_vars

(***************************************************************************)
(* C17.  A shot-history cell only goes Empty -> Pending -> Hit or          *)
(* Empty -> Pending -> Miss: a cell that is Hit or Miss never changes      *)
(* again, and no shot-history cell ever holds Ship.                        *)
(***************************************************************************)
ShotCellMoves ==
    {<<Cell_to_u8("Empty"), Cell_to_u8("Pending")>>,
     <<Cell_to_u8("Pending"), Cell_to_u8("Hit")>>,
     <<Cell_to_u8("Pending"), Cell_to_u8("Miss")>>}

C17_ShotCellsMoveForward ==
    /\ [](HasMatch =>
            /\ CellsHolding(M.shots_p1, "Ship") = {}
            /\ CellsHolding(M.shots_p2, "Ship") = {})
    /\ [][SameMatch =>
            LET m == unwrap(active_match)
                m2 == unwrap(active_match')
            IN \A i \in 1..(BOARD_SIZE * BOARD_SIZE) :
                   /\ m2.shots_p1[i] = m.shots_p1[i]
                          \/ <<m.shots_p1[i], m2.shots_p1[i]>> \in ShotCellMoves
                   /\ m2.shots_p2[i] = m.shots_p2[i]
                          \/ <<m.shots_p2[i], m2.shots_p2[i]>> \in ShotCellMoves]_vars

(***************************************************************************)
(* C18.  An own-board cell only goes Empty -> Ship, in a placement by the  *)
(* owner, and Ship -> Hit: a cell that is Hit stays Hit, and is never Ship *)
(* again.                                                                  *)
(***************************************************************************)
C18_OwnCellsMoveForward ==
    [][\A p \in Identities :
           \A id \in (DOMAIN boards[p]) \cap (DOMAIN boards'[p]) :
               \A i \in 1..(BOARD_SIZE * BOARD_SIZE) :
                   LET c == boards[p][id].own[i]
                       c2 == boards'[p][id].own[i]
                   IN \/ c2 = c
                      \/ /\ c = Cell_to_u8("Empty") /\ c2 = Cell_to_u8("Ship")
                         /\ last'.op = "place_ships" /\ last'.caller = p
                      \/ c = Cell_to_u8("Ship") /\ c2 = Cell_to_u8("Hit")]_vars

(***************************************************************************)
(* C19.  Resolution is atomic across the match and the target's stored     *)
(* board.  A step that clears the pending shot is an acknowledge_shot by   *)
(* the target that, in the same step, writes the outcome into the          *)
(* shooter's shot-history and the same mark into the target's stored       *)
(* board, and touches no other stored board; a step that does not clear    *)
(* the pending shot leaves every stored board as it was, unless it is a    *)
(* placement, which leaves the shots of the match as they were; a failing  *)
(* acknowledge_shot commits nothing.  So in every state a resolved         *)
(* shot-history cell carries the mark the target's stored board carries,   *)
(* and a marked cell of a stored board is resolved or pending again in the *)
(* opponent's shot-history.                                                *)
(***************************************************************************)
Marks == {Cell_to_u8("Hit"), Cell_to_u8("Miss")}

\* the shot-history of shooter and the stored board of target tell the same
MarksAgree(m, shooter, target) ==
    LET shots == get_shots_for_player(m, shooter)
        pb == map_get(boards[target], m.id)
    IN \A i \in 1..Len(shots) :
           /\ shots[i] \in Marks => is_some(pb) /\ unwrap(pb).own[i] = shots[i]
           /\ (is_some(pb) /\ unwrap(pb).own[i] \in Marks)
                  => shots[i] \in {unwrap(pb).own[i], Cell_to_u8("Pending")}

C19_ResolutionAtomic ==
    /\ [](HasMatch =>
            /\ MarksAgree(M, M.player1, M.player2)
            /\ MarksAgree(M, M.player2, M.player1)
            /\ \A caller \in Identities :
                   Api_acknowledge_shot(St, caller, M.id).err # Ok
                       => Api_acknowledge_shot(St, caller, M.id).st = St)
    /\ [][SameMatch =>
            LET m == unwrap(active_match)
                m2 == unwrap(active_match')
                cleared == AllPresent(m) /\ AllAbsent(m2)
            IN /\ cleared =>
                      LET shooter == unwrap(m.pending_shooter)
                          target == unwrap(m.pending_target)
                          at == PendingAt(m)
                          pb2 == StoredBoard(boards', target, m)
                      IN /\ last'.op \in {"acknowledge_shot", "acknowledge_shot_handler"}
                         /\ last'.caller = target
                         /\ get_shots_for_player(m2, shooter)[at] \in Marks
                         /\ pb2.own[at] = get_shots_for_player(m2, shooter)[at]
                         /\ pb2 = ShotResolver_resolve_shot(
                                      m, StoredBoard(boards, target, m)).pb
                         /\ \A p \in Identities \ {target} : boards'[p] = boards[p]
                         /\ \A id \in DOMAIN boards[target] :
                                id # m.id => boards'[target][id] = boards[target][id]
               /\ ~cleared =>
                      /\ PendingFields(m2) = PendingFields(m) \/ AllAbsent(m)
                      /\ boards' # boards =>
                             /\ last'.op = "place_ships"
                             /\ <<m2.shots_p1, m2.shots_p2, m2.turn, m2.winner>>
                                    = <<m.shots_p1, m.shots_p2, m.turn, m.winner>>
                             /\ PendingFields(m2) = PendingFields(m)]_vars

C19_Witness ==
    /\ HasMatch
    /\ last.op = "acknowledge_shot_handler"
    /\ last.caller = M.player2
    /\ last.ret = "miss"
    /\ AllAbsent(M)
    /\ M.shots_p1[At(9, 9)] = Cell_to_u8("Miss")
    /\ StoredBoard(boards, M.player2, M).own[At(9, 9)] = Cell_to_u8("Miss")
    /\ CellsHolding(M.shots_p1, "Pending") = {}

(***************************************************************************)
(* C20.  Information hiding.  The two copies are given the same calls and  *)
(* differ only in the legal fleet Hidden placed.  While the two fleets     *)
(* agree on every cell Seeker has fired at so far (the pending cell        *)
(* included), the shared state of the two copies is the same (id_nonce and *)
(* the Match: turn, winner, pending fields, both shot-history boards), and *)
(* so is everything a call returns to Seeker: the results and events of    *)
(* propose_shot, get_shots and get_own_board, and the outcome, the events  *)
(* and the resulting Match of the resolution of the pending shot.          *)
(***************************************************************************)
\* the cells a submitted fleet occupies
ShipCells(ships) ==
    {At(c.x, c.y) : c \in UNION {{parse_ship_coords(ships[g])[k] :
                                      k \in 1..Len(parse_ship_coords(ships[g]))} :
                                  g \in 1..Len(ships)}}

\* the cells player p has fired at in the match of state st
FiredAt(st, p) ==
    IF ~is_some(st.active_match) THEN {}
    ELSE IF ~is_player(unwrap(st.active_match), p) THEN {}
    ELSE LET shots == get_shots_for_player(unwrap(st.active_match), p)
         IN {i \in 1..Len(shots) : shots[i] # Cell_to_u8("Empty")}

LayoutsAgreeOnFired ==
    is_some(twin.ships) =>
        \A i \in FiredAt(St, Seeker) \cup FiredAt(twin.st, Seeker) :
            i \in ShipCells(unwrap(twin.ships)[1])
                <=> i \in ShipCells(unwrap(twin.ships)[2])

\* what a call gives back to its caller and to the subscribers of its events
Returned(r) == [err |-> r.err, ret |-> r.ret, events |-> r.events]

C20_InformationHiding ==
    LayoutsAgreeOnFired =>
        /\ active_match = twin.st.active_match
        /\ id_nonce = twin.st.id_nonce
        /\ boards[Seeker] = twin.st.boards[Seeker]
        /\ \A id \in MatchIds :
               /\ Returned(Api_get_shots(St, Seeker, id))
                      = Returned(Api_get_shots(twin.st, Seeker, id))
               /\ Returned(Api_get_own_board(St, Seeker, id))
                      = Returned(Api_get_own_board(twin.st, Seeker, id))
               /\ \A c \in TestShots :
                      /\ Returned(Api_propose_shot(St, Seeker, id, c.x, c.y))
                             = Returned(Api_propose_shot(twin.st, Seeker, id, c.x, c.y))
                      /\ Api_propose_shot(St, Seeker, id, c.x, c.y).st.active_match
                             = Api_propose_shot(twin.st, Seeker, id, c.x, c.y)
                                   .st.active_match
               /\ \A caller \in Identities :
                      /\ Returned(Api_acknowledge_shot(St, caller, id))
                             = Returned(Api_acknowledge_shot(twin.st, caller, id))
                      /\ Api_acknowledge_shot(St, caller, id).st.active_match
                             = Api_acknowledge_shot(twin.st, caller, id).st.active_match

C20_Witness ==
    /\ HasMatch
    /\ twin.ships = Some(<<FleetL1, FleetL2>>)
    /\ boards[Hidden] # twin.st.boards[Hidden]
    /\ LayoutsAgreeOnFired
    /\ M.shots_p1[At(0, 0)] = Cell_to_u8("Hit")
    /\ M.shots_p1[At(9, 9)] = Cell_to_u8("Miss")
    /\ last.ret = "miss"
    /\ active_match = twin.st.active_match

(***************************************************************************)
(* C21.  A player's stored PlayerBoard changes only in that player's own   *)
(* place_ships or in the resolution of a hit whose recorded target is that *)
(* player; proposing or resolving a shot never changes the shooter's       *)
(* stored board, and an acknowledge_shot by anyone but the recorded        *)
(* pending target resolves nothing.                                        *)
(***************************************************************************)
C21_BoardChangesByOwnerOrHit ==
    [][/\ \A p \in Identities :
              boards'[p] # boards[p] =>
                  \/ last'.op = "place_ships" /\ last'.caller = p
                  \/ /\ ResolveStep
                     /\ unwrap(active_match).pending_target = Some(p)
                     /\ last'.ret = "hit"
       /\ ProposeStep => boards'[last'.caller] = boards[last'.caller]
       /\ ResolveStep =>
              LET shooter == unwrap(unwrap(active_match).pending_shooter)
              IN boards'[shooter] = boards[shooter]
       /\ HasMatch =>
              \A p \in Identities :
                  M.pending_target # Some(p) =>
                      Api_acknowledge_shot(St, p, M.id).err # Ok]_vars

(***************************************************************************)
(* C22.  After any successful PlayerBoard::place_ships, whatever calls     *)
(* were made on the board before, the own board holds exactly 14 Ship      *)
(* cells and the remaining-ship counter is 14.                             *)
(***************************************************************************)
C22_FourteenAfterPlacement ==
    (pboard.ships # None /\ pboard.err = Ok) =>
        /\ Cardinality(CellsHolding(pboard.pb.own, "Ship")) = 14
        /\ pboard.pb.ships = 14

(***************************************************************************)
(* C23.  On a PlayerBoard whose placement has completed, place_ships fails *)
(* with Invalid for every submission and leaves the own board, the counter *)
(* and the placed flag as they were.                                       *)
(***************************************************************************)
C23_PlacedBoardRejects ==
    pboard.pb.placed =>
        \A ships \in BoardSubmissions :
            LET r == PlayerBoard_place_ships(pboard.pb, ships)
            IN /\ r.err.kind = "Invalid"
               /\ r.pb = pboard.pb

C23_Witness ==
    /\ pboard.pb.placed
    /\ pboard.ships = Some(FleetFar)
    /\ pboard.err = Invalid("already placed")
    /\ Cardinality(CellsHolding(pboard.pb.own, "Ship")) = 17

(***************************************************************************)
(* C24.  Placement is all-or-nothing: whenever PlayerBoard::place_ships    *)
(* returns an error, whether a ship failed a per-ship check or the fleet   *)
(* failed the composition check, the own board, the remaining-ship counter *)
(* and the placed flag are what they were before the call.                 *)
(***************************************************************************)
C24_PlacementAllOrNothing ==
    [][pboard'.err # Ok => pboard'.pb = pboard.pb]_vars

(***************************************************************************)
(* C25.  Placement failures are caller-correctable at the API.  A failing  *)
(* place_ships by a player of an unfinished match leaves that player's     *)
(* stored PlayerBoard and the placement flags of the match (the whole      *)
(* state, in fact) as they were, so after any number of such calls the     *)
(* state is the one before them, and a place_ships by the same player with *)
(* a legal fleet then succeeds.  As stated, for every player of the match. *)
(***************************************************************************)
CorrectableBy(p) ==
    \A bad \in BoardSubmissions :
        LET r == Api_place_ships(St, p, M.id, bad)
        IN r.err # Ok =>
               /\ r.st = St
               /\ \A ships \in LegalFleets :
                      Api_place_ships(r.st, p, M.id, ships).err = Ok

C25_FailuresAreCorrectable ==
    (HasMatch /\ ~is_finished(M)) =>
        \A p \in {M.player1, M.player2} : CorrectableBy(p)

(***************************************************************************)
(* C25, amended: the same for every player of the match who has not        *)
(* completed placement; for a player who has, every later place_ships      *)
(* fails, the legal fleet included.                                        *)
(***************************************************************************)
HasPlaced(p) ==
    /\ is_some(map_get(boards[p], M.id))
    /\ StoredBoard(boards, p, M).placed

C25_FailuresAreCorrectableBeforePlacement ==
    (HasMatch /\ ~is_finished(M)) =>
        \A p \in {M.player1, M.player2} :
            IF HasPlaced(p)
            THEN \A ships \in BoardSubmissions :
                     LET r == Api_place_ships(St, p, M.id, ships)
                     IN r.err = Invalid("already placed") /\ r.st = St
            ELSE CorrectableBy(p)

C25_Witness ==
    /\ HasMatch
    /\ ~is_finished(M)
    /\ M.placed_p1
    /\ ~M.placed_p2
    /\ ~HasPlaced(M.player2)
    /\ Api_place_ships(St, M.player2, M.id, FleetShort).err = Invalid("fleet composition")
    /\ Api_place_ships(St, M.player2, M.id, Touching).err = Invalid("adjacency")
    /\ Api_place_ships(St, M.player2, M.id, FleetL2).err = Ok

(***************************************************************************)
(* C26.  place_ships on a fresh board succeeds only if the submitted ships *)
(* (the groups with at least one coordinate, as parsed) number one of      *)
(* length 2, two of length 3, one of length 4 and one of length 5; a       *)
(* submission of those lengths whose ships are straight, contiguous, on    *)
(* the board, and neither overlap nor touch, succeeds and sets the placed  *)
(* flag; a submission of any other lengths fails and does not set it.      *)
(***************************************************************************)
ParsedShips(ships) ==
    SelectSeq([i \in 1..Len(ships) |-> parse_ship_coords(ships[i])],
              LAMBDA coords : coords # <<>>)

ShipsOfLength(ships, n) ==
    Cardinality({i \in 1..Len(ParsedShips(ships)) : Len(ParsedShips(ships)[i]) = n})

ExactFleet(ships) ==
    /\ Len(ParsedShips(ships)) = 5
    /\ ShipsOfLength(ships, 2) = 1
    /\ ShipsOfLength(ships, 3) = 2
    /\ ShipsOfLength(ships, 4) = 1
    /\ ShipsOfLength(ships, 5) = 1

WellFormed(ships) ==
    \A i \in 1..Len(ParsedShips(ships)) :
        LET coords == ParsedShips(ships)[i]
        IN /\ \A k \in 1..Len(coords) : Coordinate_is_valid(coords[k])
           /\ Ship_is_straight(coords)
           /\ Ship_is_contiguous(coords)

Apart(ships) ==
    \A i, j \in 1..Len(ParsedShips(ships)) :
        i < j =>
            /\ ~Ship_overlaps_with(ParsedShips(ships)[i], ParsedShips(ships)[j])
            /\ ~Ship_is_adjacent_to(ParsedShips(ships)[i], ParsedShips(ships)[j])

KeepsItsDistance(coords, own) ==
    \A k \in 1..Len(coords) :
        \A x \in 0..(BOARD_SIZE - 1), y \in 0..(BOARD_SIZE - 1) :
            (/\ Board_get(own, BOARD_SIZE, x, y) = "Ship"
             /\ \A l \in 1..Len(coords) : coords[l] # Coord(x, y))
                => ~(Abs(coords[k].x - x) <= 1 /\ Abs(coords[k].y - y) <= 1)

C27_NoTouchingShips ==
    pboard.ships # None =>
        LET ships == unwrap(pboard.ships)
        IN /\ ~Apart(ships) => pboard.err.kind = "Invalid"
           /\ pboard.err = Ok =>
                  /\ Apart(ships)
                  /\ \A i \in 1..Len(ParsedShips(ships)) :
                         KeepsItsDistance(ParsedShips(ships)[i], pboard.pb.own)

C27_Witness ==
    /\ pboard.ships = Some(FleetDiagonal)
    /\ ExactFleet(FleetDiagonal)
    /\ ~Apart(FleetDiagonal)
    /\ pboard.err = Invalid("adjacency")
    /\ ~pboard.pb.placed

(***************************************************************************)
(* C28.  PlayerBoard::place_ships on a fresh board with the two groups     *)
(* "0,0;0,1;0,2" and "2,0;2,1;2,2;2,3" succeeds; afterwards is_placed() is *)
(* true and get_ship_count() is 7.                                         *)
(***************************************************************************)
C28_DocExamplePlaces ==
    [][(pboard.pb = PlayerBoard_new /\ pboard'.ships = Some(DocExample)) =>
           /\ pboard'.err = Ok
           /\ pboard'.pb.placed
           /\ pboard'.pb.ships = 7]_vars

(***************************************************************************)
(* C29.  Ship::new succeeds for every list of 2 to 5 in-range coordinates  *)
(* that is straight, contiguous and free of duplicates, and fails for      *)
(* every list that is not straight (not exactly one shared axis), not      *)
(* contiguous (a gap along the axis) or outside the length bound.          *)
(***************************************************************************)
C29_ShipNewTakesStraightRunsOnly ==
    ship.result # None =>
        LET coords == ship.coords
            ok == unwrap(ship.result) = Ok
            in_length == Len(coords) >= 2 /\ Len(coords) <= 5
            in_range == \A i \in 1..Len(coords) : Coordinate_is_valid(coords[i])
            duplicate_free ==
                \A i, j \in 1..Len(coords) : i # j => coords[i] # coords[j]
        IN /\ (/\ in_length
               /\ in_range
               /\ Ship_is_straight(coords)
               /\ Ship_is_contiguous(coords)
               /\ duplicate_free) => ok
           /\ (\/ ~Ship_is_straight(coords)
               \/ ~Ship_is_contiguous(coords)
               \/ ~in_length) => ~ok

(***************************************************************************)
(* C30.  create_match fails with Invalid and leaves the state as it was    *)
(* when an unfinished match is active or when the named second player is   *)
(* the caller; it succeeds, for a second player who is another identity,   *)
(* when there is no match or the active match is finished.  So a match is  *)
(* created only when none is unfinished, which keeps the unfinished        *)
(* matches at one at most, and in every match player1 # player2.           *)
(***************************************************************************)
Busy == HasMatch /\ ~is_finished(M)

C30_CreateMatchGate ==
    /\ [](\A caller \in Identities, player2 \in Identities \cup {"?"} :
              LET r == Api_create_match(St, caller, player2)
              IN /\ (Busy \/ caller = player2) =>
                        r.err.kind = "Invalid" /\ r.st = St
                 /\ (~Busy /\ caller # player2 /\ player2 \in Identities) =>
                        /\ r.err = Ok
                        /\ unwrap(r.st.active_match).player1 = caller
                        /\ unwrap(r.st.active_match).player2 = player2
                        /\ ~is_finished(unwrap(r.st.active_match)))
    /\ [](HasMatch => M.player1 # M.player2)
    /\ [][last'.op = "create_match" /\ vars' # vars => ~Busy]_vars

C30_Witness ==
    /\ HasMatch
    /\ M.id = 2
    /\ last.op = "create_match"
    /\ Busy
    /\ Api_create_match(St, "B", "C").err = Invalid("another match is active")

(***************************************************************************)
(* C31.  A newly created match has turn = player1, no winner, both         *)
(* placement flags false, no pending shot and two all-Empty shot-history   *)
(* boards.  The turn stays player1 as long as a player has still to place, *)
(* so the first successful propose_shot of a match is made by player1; and *)
(* the turn is always one of the two players.                              *)
(***************************************************************************)
NoShotYet(m) ==
    /\ CellsHolding(m.shots_p1, "Empty") = 1..(BOARD_SIZE * BOARD_SIZE)
    /\ CellsHolding(m.shots_p2, "Empty") = 1..(BOARD_SIZE * BOARD_SIZE)

C31_NewMatchStartsWithPlayer1 ==
    /\ [][(last'.op = "create_match" /\ vars' # vars) =>
              LET m == unwrap(active_match')
              IN /\ m.turn = m.player1
                 /\ m.winner = None
                 /\ ~m.placed_p1 /\ ~m.placed_p2
                 /\ AllAbsent(m)
                 /\ NoShotYet(m)]_vars
    /\ [](HasMatch =>
              /\ M.turn \in {M.player1, M.player2}
              /\ ~both_players_placed(M) => M.turn = M.player1
              /\ NoShotYet(M) => M.turn = M.player1)
    /\ [][(ProposeStep /\ NoShotYet(unwrap(active_match))) =>
              last'.caller = unwrap(active_match).player1]_vars

C31_Witness ==
    /\ HasMatch
    /\ M.id = 2
    /\ last.op = "propose_shot"
    /\ last.caller = M.player1
    /\ Cardinality(CellsHolding(M.shots_p1, "Pending")) = 1
    /\ CellsHolding(M.shots_p2, "Empty") = 1..(BOARD_SIZE * BOARD_SIZE)

(***************************************************************************)
(* C32.  The ShotFired event emitted by the API acknowledge_shot carries   *)
(* the coordinates (x,y) of the shot just resolved and its outcome, "hit"  *)
(* or "miss", for every resolved shot.                                     *)
(***************************************************************************)
C32_ShotFiredCarriesTheShot ==
    [][ResolveStep =>
          LET m == unwrap(active_match)
              fired == last'.events[Len(last'.events)]
          IN /\ fired.name = "ShotFired"
             /\ fired.id = m.id
             /\ fired.x = unwrap(m.pending_x)
             /\ fired.y = unwrap(m.pending_y)
             /\ fired.result \in {"hit", "miss"}
             /\ fired.result = last'.ret]_vars

(***************************************************************************)
(* C33.  get_own_board returns the caller's stored own board with the cell *)
(* at the pending coordinates replaced by the Pending code (4) exactly     *)
(* when a shot is pending and the caller is its recorded target, and the   *)
(* stored board as it is otherwise; the call changes neither the stored    *)
(* PlayerBoard nor the Match.                                              *)
(***************************************************************************)
C33_OwnBoardView ==
    HasMatch =>
        \A p \in Identities :
            is_some(map_get(boards[p], M.id)) =>
                LET r == Api_get_own_board(St, p, M.id)
                    own == StoredBoard(boards, p, M).own
                IN /\ r.err = Ok
                   /\ r.ret.size = BOARD_SIZE
                   /\ r.ret.board =
                          (IF AllPresent(M) /\ M.pending_target = Some(p)
                           THEN [own EXCEPT ![PendingAt(M)] = 4]
                           ELSE own)
                   /\ r.st = St

C33_Witness ==
    /\ HasMatch
    /\ AllPresent(M)
    /\ M.pending_target = Some(M.player2)
    /\ StoredBoard(boards, M.player2, M).own[PendingAt(M)] = Cell_to_u8("Ship")
    /\ Api_get_own_board(St, M.player2, M.id).ret.board[PendingAt(M)] = 4
    /\ Api_get_own_board(St, M.player1, M.id).ret.board
           = StoredBoard(boards, M.player1, M).own

(***************************************************************************)
(* C34.  parse_ship_coords never fails: what it returns is, in order, the  *)
(* pieces of the group whose two fields are numbers on the board, the      *)
(* other pieces being dropped.  So a group with k such pieces among any    *)
(* number of others is validated and placed as a ship of k cells, and a    *)
(* group with none is skipped: a successful place_ships writes exactly the *)
(* cells of the kept pieces and raises the counter by their number.        *)
(***************************************************************************)
KeptPairs(group) ==
    LET kept == SelectSeq(group,
                          LAMBDA p : /\ p.sx \in 0..(BOARD_SIZE - 1)
                                     /\ p.sy \in 0..(BOARD_SIZE - 1))
    IN [k \in 1..Len(kept) |-> Coord(kept[k].sx, kept[k].sy)]

C34_ParserDropsMalformedPairs ==
    /\ [](pboard.ships # None =>
              \A i \in 1..Len(unwrap(pboard.ships)) :
                  parse_ship_coords(unwrap(pboard.ships)[i])
                      = KeptPairs(unwrap(pboard.ships)[i]))
    /\ [][pboard'.err = Ok =>
              LET ships == unwrap(pboard'.ships)
                  cells == {At(KeptPairs(ships[i])[k].x, KeptPairs(ships[i])[k].y) :
                                <<i, k>> \in {<<i, k>> \in (1..Len(ships)) \X (1..5) :
                                                  k <= Len(KeptPairs(ships[i]))}}
              IN /\ CellsHolding(pboard'.pb.own, "Ship")
                        = CellsHolding(pboard.pb.own, "Ship") \cup cells
                 /\ CellsHolding(pboard.pb.own, "Ship") \cap cells = {}
                 /\ pboard'.pb.ships = pboard.pb.ships + Cardinality(cells)
                 /\ \A i \in 1..Len(ships) : Len(KeptPairs(ships[i])) \in {0} \cup (2..5)]_vars

C34_Witness ==
    /\ pboard.ships = Some(FleetNoisy)
    /\ pboard.err = Ok
    /\ parse_ship_coords(FleetNoisy[5]) = <<>>
    /\ parse_ship_coords(FleetNoisy[7]) = <<Coord(5, 8), Coord(6, 8)>>
    /\ Len(FleetNoisy[7]) = 5
    /\ pboard.pb.own[At(5, 8)] = Cell_to_u8("Ship")
    /\ pboard.pb.own[At(6, 8)] = Cell_to_u8("Ship")
    /\ Cardinality(CellsHolding(pboard.pb.own, "Ship")) = 17

(***************************************************************************)
(* C35.  Under every sequence of API calls, Match::resolve_shot is only    *)
(* reached while all pending fields are present, so its expect()s never    *)
(* fail: no acknowledge_shot, direct or by the handler, panics in any      *)
(* reachable state, every resolution starts from a state with all four     *)
(* pending fields, and with no pending shot both the API call and          *)
(* ShotResolver::resolve_shot return an error and change nothing.          *)
(***************************************************************************)
C35_ResolveNeverPanics ==
    /\ [](\A caller \in Identities, id \in MatchIds :
              /\ Api_acknowledge_shot(St, caller, id).err # Panic
              /\ Api_acknowledge_shot_handler(St, caller, id, 0, 0).err # Panic
              /\ (HasMatch /\ ~AllPresent(M)) =>
                     /\ Api_acknowledge_shot(St, caller, id).err.kind
                            \in {"Invalid", "NotFound", "Finished"}
                     /\ Api_acknowledge_shot(St, caller, id).st = St)
    /\ []((HasMatch /\ ~AllPresent(M)) =>
              \A p \in Identities :
                  is_some(map_get(boards[p], M.id)) =>
                      LET pb == StoredBoard(boards, p, M)
                          r == ShotResolver_resolve_shot(M, pb)
                      IN /\ r.err = Invalid("no pending shot")
                         /\ ~r.panic
                         /\ r.m = M
                         /\ r.pb = pb)
    /\ [][ResolveStep => AllPresent(unwrap(active_match))]_vars

C35_Witness ==
    /\ HasMatch
    /\ last.op = "acknowledge_shot"
    /\ AllAbsent(M)
    /\ ~is_finished(M)
    /\ Api_acknowledge_shot(St, M.player2, M.id).err = Invalid("no pending shot")
    /\ Api_acknowledge_shot(St, M.player1, M.id).err = Invalid("no pending shot")

(***************************************************************************)
(* C36.  In every reachable state the remaining-ship counter of every      *)
(* stored PlayerBoard equals the number of cells of its own board that     *)
(* hold Ship; so it lies between 0 and 14, a resolution lowers it by one   *)
(* when the cell shot at held Ship and leaves it alone otherwise, a cell   *)
(* that was hit before included.                                           *)
(***************************************************************************)
CounterCountsShipCells(pb) == pb.ships = Cardinality(CellsHolding(pb.own, "Ship"))

OneDecrementPerShipCell ==
    [][ResolveStep =>
          LET m == unwrap(active_match)
              target == unwrap(m.pending_target)
              pb == StoredBoard(boards, target, m)
              pb2 == StoredBoard(boards', target, m)
          IN pb2.ships = (IF pb.own[PendingAt(m)] = Cell_to_u8("Ship")
                          THEN pb.ships - 1 ELSE pb.ships)]_vars

C38_WinnerConsistency ==
    (HasMatch /\ both_players_placed(M)) =>
        LET left(p) == StoredBoard(boards, p, M).ships
        IN /\ is_some(M.winner) <=> (left(M.player1) = 0 \/ left(M.player2) = 0)
           /\ is_some(M.winner) =>
                  /\ unwrap(M.winner) \in {M.player1, M.player2}
                  /\ left(get_opponent(M, unwrap(M.winner))) = 0
                  /\ left(unwrap(M.winner)) > 0

C38_Witness ==
    /\ HasMatch
    /\ both_players_placed(M)
    /\ is_some(M.winner)
    /\ StoredBoard(boards, get_opponent(M, unwrap(M.winner)), M).ships = 0
    /\ StoredBoard(boards, unwrap(M.winner), M).ships > 0
    /\ last.ret = "hit"

(***************************************************************************)
(* C39.  The shared and the private view agree: in every reachable state   *)
(* with no pending shot, the number of Hit cells in a player's             *)
(* shot-history is 14 minus the opponent's remaining-ship counter, and a   *)
(* cell of the shot-history is Hit exactly where the opponent's own board  *)
(* is Hit.                                                                 *)
(***************************************************************************)
C39_ViewsAgree ==
    (HasMatch /\ AllAbsent(M) /\ both_players_placed(M)) =>
        \A p \in {M.player1, M.player2} :
            LET shots == get_shots_for_player(M, p)
                theirs == StoredBoard(boards, get_opponent(M, p), M)
            IN /\ Cardinality(CellsHolding(shots, "Hit")) = 14 - theirs.ships
               /\ CellsHolding(shots, "Hit") = CellsHolding(theirs.own, "Hit")

\* a match in play: both fleets are placed and no winner is recorded
InPlay == HasMatch /\ both_players_placed(M) /\ ~(is_finished(M) /\ is_some(M.winner))

(***************************************************************************)
(* C40.  Termination.  Once both players have placed a legal fleet, if the *)
(* turn-holder keeps proposing shots at cells they have not fired at       *)
(* before and every pending shot is acknowledged by its target (weak       *)
(* fairness on both), the match is eventually finished, with a winner: no  *)
(* behaviour stays in play for ever, and a step taken in play leaves the   *)
(* same match, with both fleets placed, so that play can only end by that  *)
(* match being finished with a winner.  Every shot of the sweep is at a    *)
(* cell that was Empty in the shooter's shot-history, so a player fires    *)
(* at a cell at most once.                                                 *)
(***************************************************************************)
C40_MatchTerminates ==
    /\ []<>(~InPlay)
    /\ [][InPlay =>
              /\ is_some(active_match')
              /\ unwrap(active_match').id = M.id
              /\ both_players_placed(unwrap(active_match'))]_vars
    /\ [][ProposeStep =>
              LET m == unwrap(active_match)
                  m2 == unwrap(active_match')
              IN get_shots_for_player(m, last'.caller)[PendingAt(m2)]
                     = Cell_to_u8("Empty")]_vars

C40_Witness ==
    /\ HasMatch
    /\ M.id = 1
    /\ both_players_placed(M)
    /\ is_finished(M)
    /\ M.winner = Some(M.player2)
    /\ Cardinality(CellsHolding(M.shots_p2, "Hit")) = 17
    /\ Cardinality(CellsHolding(M.shots_p2, "Empty")) >= BOARD_SIZE * BOARD_SIZE - Len(HuntOrder)

====
